---- MODULE Spec2Model ----
(***************************************************************************)
(* Model of the Mastermind test-orchestration core:                        *)
(*   - the execution driver  (lib/testsuite.py: session_wrapper,           *)
(*     Testsuite._setup, Testsuite._run, Testsuite.build_arguments),       *)
(*   - the status classifier (lib/internal.py: StatusClasifier,            *)
(*     lib/statuses.py: Status and its subclasses),                        *)
(*   - the combination generator (lib/helpers.py: generate_combinations),  *)
(*   - the marker options (lib/internal.py: MarkerOption, MarkerGroup),    *)
(*   - the subprocess runner with its watchdog (lib/utils.py: run),        *)
(*   - the status identifiers (lib/statuses.py: Status.status_id),         *)
(*   - the loop of _run as a function of the exit codes, and the report    *)
(*     names of build_arguments.                                           *)
(* Each component has its own specification; the variables of the other    *)
(* components stay at their idle values.                                   *)
(***************************************************************************)
EXTENDS Integers, Sequences, FiniteSets, TLC

VARIABLES
    \* ---- execution driver ----
    pc,            \* position of Testsuite.run inside session_wrapper
    args,          \* parsed command line (argparse Namespace + '--collect-only' in argv)
    args_given,    \* run was called with its args argument (a list or None), not as run()
    repositories,  \* len(self.repositories)
    i,             \* index of the repository of the outer loop of _run (1-based, enumerate(..., 1))
    configs,       \* number of commands build_arguments yields for repository i (0: generator not started)
    j,             \* index of the command of the inner loop of _run
    rc,            \* local rc of _run
    exit_codes,    \* local exit_codes of _run
    interrupted,   \* local interrupted of _run
    run_result,    \* value returned by _run / run
    run_raised,    \* an exception left func(*args) (Testsuite.run)
    wrapper_rc,    \* rc of session_wrapper.func_wrapper, the value returned to the caller
    escaped,       \* an exception left func_wrapper itself
    \* history of the run, for stating the properties
    invoked,       \* sequence of <<i, j>> pairs handed to check_call, in order
    resolved,      \* resolved[k]: number of commands build_arguments produced for repository k
    observed,      \* exit codes the invocations ended with (0 for a clean exit)
    cut_short,     \* number of invocations that ended by KeyboardInterrupt or another exception
    failed_at,     \* position in invoked of the first invocation that exited with code 2 or 3 (0: none)
    failed_code,   \* the exit code of that invocation
    in_flight,     \* runner subprocesses started by check_call and not known to have ended
    \* ---- status classifier ----
    cpc, cin, cres,
    \* ---- combination generator ----
    gpc, gin, gres,
    \* ---- marker options ----
    mpc,           \* position of the caller of find_option / find_options
    mgroup,        \* the registered MarkerGroup (the object the calls are made on)
    mcase,         \* the metafunc of the call in hand
    mres,          \* outcome of the last call
    mvalues,       \* content of the dictionary object created by MarkerGroup.__init__ (self.values)
    mfirst,        \* what the first find_options call returned, as read at its return
    mscopes,       \* the options asked of get_scopes and the dictionary it returned
    \* ---- utils.run ----
    rpc,           \* position of the main thread inside run
    rin,           \* arguments of run and the behaviour of the tool it starts
    rloc,          \* locals ec and timed_out of run
    proc,          \* the Popen object p and the subprocess behind it
    timer,         \* the threading.Timer t and its thread
    rres,          \* what run returned or raised
    \* ---- status identifiers ----
    spc, sin, sres, \* two statuses and the outcome of their comparison
    \* ---- the loop of _run over given exit codes ----
    ppc,           \* position of the comparison of two orders of one plan
    pin,           \* flags, the exit codes of the pairs in plan order, and a permutation
    pres,          \* what _run returns for the plan order and for the permuted order
    \* ---- report names of build_arguments ----
    bpc,           \* position of the caller of build_arguments
    bin,           \* the checkouts of the run with their configurations
    bres           \* the report name of every pair, in plan order

driver_vars == <<pc, args, args_given, repositories, i, configs, j, rc, exit_codes, interrupted,
                 run_result, run_raised, wrapper_rc, escaped,
                 invoked, resolved, observed, cut_short, failed_at, failed_code, in_flight>>
clasifier_vars == <<cpc, cin, cres>>
generator_vars == <<gpc, gin, gres>>
marker_vars == <<mpc, mgroup, mcase, mres, mvalues, mfirst, mscopes>>
run_vars == <<rpc, rin, rloc, proc, timer, rres>>
order_vars == <<spc, sin, sres>>
plan_vars == <<ppc, pin, pres>>
report_vars == <<bpc, bin, bres>>
vars == <<driver_vars, clasifier_vars, generator_vars, marker_vars, run_vars, order_vars,
          plan_vars, report_vars>>

(***************************************************************************)
(* Bounds                                                                  *)
(***************************************************************************)
MaxRepos == 2
MaxConfigs == 2
\* generate_combinations: keys of the dictionary, elements of a list value
MaxKeys == 2
MaxVals == 2

(***************************************************************************)
(* ExitCodes (testsuite.py 23-32)                                          *)
(***************************************************************************)
EXIT_OK == 0
EXIT_TESTSFAILED == 1
EXIT_INTERRUPTED == 2
EXIT_INTERNALERROR == 3
EXIT_USAGEERROR == 4
EXIT_NOTESTSCOLLECTED == 5

\* Return codes a pytest subprocess is observed with: the enumeration and a
\* negative code (the child was terminated by a signal).
SIGKILLED == -9
ReturnCodes == {SIGKILLED, EXIT_OK, EXIT_TESTSFAILED, EXIT_INTERRUPTED,
                EXIT_INTERNALERROR, EXIT_USAGEERROR, EXIT_NOTESTSCOLLECTED}
\* Return code of 'make html' in _generate_documentation: exc.returncode is
\* returned as it is (line 177), the exit statuses of make and a negative code
\* (make was terminated by a signal).
MakeCodes == {SIGKILLED, 0, 1, 2}

Max(S) == CHOOSE m \in S : \A x \in S : x <= m

idle_driver ==
    /\ pc = "idle"
    /\ args = [autodetect_top_project |-> FALSE, project |-> FALSE, repository |-> FALSE,
               ignore_internal_errors |-> FALSE, help |-> FALSE, generate_doc |-> FALSE,
               collect_only |-> FALSE]
    /\ args_given = TRUE
    /\ repositories = 0
    /\ i = 0 /\ configs = 0 /\ j = 0
    /\ rc = 0 /\ exit_codes = {} /\ interrupted = FALSE
    /\ run_result = 0 /\ run_raised = FALSE
    /\ wrapper_rc = 0 /\ escaped = FALSE
    /\ invoked = <<>> /\ resolved = <<>> /\ observed = {} /\ cut_short = 0
    /\ failed_at = 0 /\ failed_code = 0 /\ in_flight = 0
idle_clasifier == cpc = "idle" /\ cin = <<>> /\ cres = <<>>
idle_generator == gpc = "idle" /\ gin = <<>> /\ gres = <<>>
idle_markers ==
    /\ mpc = "idle" /\ mgroup = <<>> /\ mcase = <<>>
    /\ mres = <<>> /\ mvalues = <<>> /\ mfirst = <<>> /\ mscopes = <<>>
idle_run ==
    /\ rpc = "idle" /\ rin = <<>> /\ rloc = <<>>
    /\ proc = <<>> /\ timer = <<>> /\ rres = <<>>
idle_order == spc = "idle" /\ sin = <<>> /\ sres = <<>>
idle_plan == ppc = "idle" /\ pin = <<>> /\ pres = <<>>
idle_reports == bpc = "idle" /\ bin = <<>> /\ bres = <<>>

(***************************************************************************)
(* Execution driver                                                        *)
(***************************************************************************)
Namespace == [autodetect_top_project : BOOLEAN, project : BOOLEAN, repository : BOOLEAN,
              ignore_internal_errors : BOOLEAN, help : BOOLEAN, generate_doc : BOOLEAN,
              collect_only : BOOLEAN]

\* The command lines of the runs considered. --project and --repository are
\* read by the driver model only in the constraint of lines 209-211, together
\* with --autodetect-top-project; without that flag they are left unset.
CommandLines ==
    {n \in Namespace : ~n.autodetect_top_project => (~n.project /\ ~n.repository)}

DriverInit ==
    /\ pc = "parse"
    /\ args \in CommandLines
    /\ args_given \in BOOLEAN
    /\ repositories = 1
    /\ i = 0 /\ configs = 0 /\ j = 0
    /\ rc = 0 /\ exit_codes = {} /\ interrupted = FALSE
    /\ run_result = 0 /\ run_raised = FALSE
    /\ wrapper_rc = 0 /\ escaped = FALSE
    /\ invoked = <<>> /\ resolved = <<>> /\ observed = {} /\ cut_short = 0
    /\ failed_at = 0 /\ failed_code = 0 /\ in_flight = 0

\* _parse_testsuite_arguments, the constraint of lines 209-211.
InvalidCombination(a) ==
    a.autodetect_top_project /\ (a.project = a.repository)

StopsPlan_flag_forgotten(returncode, a) ==
    returncode # EXIT_TESTSFAILED

StopsPlan_any_failure(returncode, a) ==
    returncode # EXIT_OK /\ ~a.ignore_internal_errors

\* The condition of line 444 under which a CalledProcessError stops the plan.
StopsPlan(returncode, a) ==
    returncode # EXIT_TESTSFAILED /\ ~a.ignore_internal_errors

\* Line 450: the collection phase (or the help) is run just once.
RunOnce(a) == a.collect_only \/ a.help

Aggregate_min(codes) == CHOOSE m \in codes : \A x \in codes : m <= x

\* Line 459.
Aggregate(codes) == Max(codes)

\* The driver leaves the other components alone.
driver_frame == UNCHANGED <<clasifier_vars, generator_vars, marker_vars, run_vars, order_vars, plan_vars, report_vars>>
history_unchanged ==
    UNCHANGED <<invoked, resolved, observed, cut_short, failed_at, failed_code, in_flight>>
loop_unchanged == UNCHANGED <<i, configs, j, rc, exit_codes, interrupted>>

\* session_wrapper, lines 39-40, before the try block: args[1] of the
\* positional arguments (IndexError when run was called without its argument,
\* the tuple is (self,)), then the arguments are parsed.
WrapperParse ==
    /\ driver_frame
    /\ pc = "parse"
    /\ IF ~args_given \/ InvalidCombination(args)
         THEN pc' = "done" /\ escaped' = TRUE
         ELSE pc' = "setup" /\ escaped' = FALSE
    /\ UNCHANGED <<args, args_given, repositories, run_result, run_raised, wrapper_rc>>
    /\ loop_unchanged /\ history_unchanged

\* Testsuite.run 474-485 and _setup: the report directory is created (lines
\* 369-379, os.makedirs may raise), then the early return for
\* --help/--generate-doc keeps self.repositories = [None]; otherwise
\* setup_repositories assigns a non-empty list of checkouts (line 391). An
\* exception raised before the assignment (os.makedirs, setup_repositories)
\* leaves self.repositories as it was; load_ip_package (394-396) raises after
\* the assignment, so the checkouts stay assigned.
Setup ==
    /\ driver_frame
    /\ pc = "setup"
    /\ \/ /\ args.help \/ args.generate_doc
          /\ repositories' = 1
          /\ pc' = "run" /\ run_raised' = FALSE
       \/ /\ ~(args.help \/ args.generate_doc)
          /\ \E n \in 1..MaxRepos : repositories' = n
          /\ pc' = "run" /\ run_raised' = FALSE
       \/ /\ \/ repositories' = repositories
             \/ /\ ~(args.help \/ args.generate_doc)
                /\ \E n \in 1..MaxRepos : repositories' = n
          /\ pc' = "returned" /\ run_raised' = TRUE
    /\ UNCHANGED <<args, args_given, run_result, wrapper_rc, escaped>>
    /\ loop_unchanged /\ history_unchanged

\* _run 401-424: --generate-doc returns the code of make; otherwise the locals
\* are initialised and the outer loop starts with the first repository.
RunStart ==
    /\ driver_frame
    /\ pc = "run"
    /\ IF ~args.help /\ args.generate_doc
         THEN /\ \/ \E c \in MakeCodes : run_result' = c /\ run_raised' = FALSE
                 \/ run_result' = run_result /\ run_raised' = TRUE
              /\ pc' = "returned"
              /\ loop_unchanged
         ELSE /\ exit_codes' = {} /\ interrupted' = FALSE /\ rc' = 0
              /\ i' = 1 /\ configs' = 0 /\ j' = 0
              /\ pc' = "resolve"
              /\ UNCHANGED <<run_result, run_raised>>
    /\ UNCHANGED <<args, args_given, repositories, wrapper_rc, escaped>>
    /\ history_unchanged

\* build_arguments(repository, args) up to its first yield (the generator body
\* runs when the inner for loop of _run asks for the first command): an
\* assertion fails (no project, no configuration matches), or the list of
\* configurations ([None] when there is none) is known.
Resolve ==
    /\ driver_frame
    /\ pc = "resolve"
    /\ \/ /\ \E n \in 1..MaxConfigs : configs' = n /\ resolved' = Append(resolved, n)
          /\ j' = 1
          /\ pc' = "invoke"
          /\ UNCHANGED <<run_raised>>
       \/ /\ pc' = "returned" /\ run_raised' = TRUE
          /\ UNCHANGED <<configs, j, resolved>>
    /\ UNCHANGED <<args, args_given, repositories, i, rc, exit_codes, interrupted, run_result,
                   wrapper_rc, escaped, invoked, observed, cut_short, failed_at, failed_code,
                   in_flight>>

\* What follows the try statement of one invocation (lines 448-457), given the
\* values rc and interrupted have after its except/else clause and whether an
\* exception other than KeyboardInterrupt/CalledProcessError is in flight.
AfterInvocation(new_rc, new_interrupted, raising) ==
    /\ rc' = new_rc
    /\ interrupted' = new_interrupted
    /\ IF RunOnce(args)
         THEN \* return in the finally clause: also discards an exception in flight
              /\ run_result' = new_rc /\ run_raised' = FALSE
              /\ pc' = "returned"
              /\ UNCHANGED <<exit_codes, i, j, configs>>
         ELSE /\ exit_codes' = exit_codes \cup {new_rc}
              /\ IF raising
                   THEN /\ run_raised' = TRUE /\ pc' = "returned"
                        /\ UNCHANGED <<run_result, i, j, configs>>
                   ELSE IF new_interrupted \/ (j = configs /\ i = repositories)
                   THEN /\ run_result' = Aggregate(exit_codes')
                        /\ run_raised' = FALSE /\ pc' = "returned"
                        /\ UNCHANGED <<i, j, configs>>
                   ELSE IF j < configs
                   THEN /\ j' = j + 1 /\ pc' = "invoke"
                        /\ UNCHANGED <<run_result, run_raised, i, configs>>
                   ELSE /\ i' = i + 1 /\ configs' = 0 /\ j' = 0 /\ pc' = "resolve"
                        /\ UNCHANGED <<run_result, run_raised>>

\* The invocation under a fault: the configurations of a checkout are taken
\* from the last to the first.
InvokeStart_last_configuration_first ==
    /\ driver_frame
    /\ pc = "invoke"
    /\ invoked' = Append(invoked, <<i, configs + 1 - j>>)
    /\ in_flight' = in_flight + 1
    /\ pc' = "wait"
    /\ UNCHANGED <<args, args_given, repositories, run_result, run_raised, wrapper_rc, escaped,
                   resolved, observed, cut_short, failed_at, failed_code>>
    /\ loop_unchanged

\* Line 435: check_call starts the runner subprocess of the pair in hand and
\* waits for it.
InvokeStart ==
    /\ driver_frame
    /\ pc = "invoke"
    /\ invoked' = Append(invoked, <<i, j>>)
    /\ in_flight' = in_flight + 1
    /\ pc' = "wait"
    /\ UNCHANGED <<args, args_given, repositories, run_result, run_raised, wrapper_rc, escaped,
                   resolved, observed, cut_short, failed_at, failed_code>>
    /\ loop_unchanged

\* check_call returned (the subprocess exited with 0): the else clause,
\* rc = EXIT_OK.
InvokeClean ==
    /\ driver_frame
    /\ pc = "wait"
    /\ in_flight' = in_flight - 1
    /\ observed' = observed \cup {EXIT_OK}
    /\ AfterInvocation(EXIT_OK, interrupted, FALSE)
    /\ UNCHANGED <<args, args_given, repositories, wrapper_rc, escaped, invoked, resolved, cut_short,
                   failed_at, failed_code>>

\* check_call raised CalledProcessError (the subprocess exited with a
\* non-zero code): rc = exc.returncode.
InvokeFailed ==
    /\ driver_frame
    /\ pc = "wait"
    /\ in_flight' = in_flight - 1
    /\ \E returncode \in ReturnCodes \ {0} :
          /\ observed' = observed \cup {returncode}
          /\ IF failed_at = 0 /\ returncode \in {EXIT_INTERRUPTED, EXIT_INTERNALERROR}
               THEN failed_at' = Len(invoked) /\ failed_code' = returncode
               ELSE UNCHANGED <<failed_at, failed_code>>
          /\ AfterInvocation(returncode,
                             IF StopsPlan(returncode, args) THEN TRUE ELSE interrupted,
                             FALSE)
    /\ UNCHANGED <<args, args_given, repositories, wrapper_rc, escaped, invoked, resolved, cut_short>>

\* check_call raised KeyboardInterrupt while waiting: interrupted = True, rc
\* keeps its value. The wait is abandoned, so the subprocess is not known to
\* have ended.
InvokeKeyboardInterrupt ==
    /\ driver_frame
    /\ pc = "wait"
    /\ in_flight' = in_flight
    /\ cut_short' = cut_short + 1
    /\ AfterInvocation(rc, TRUE, FALSE)
    /\ UNCHANGED <<args, args_given, repositories, wrapper_rc, escaped, invoked, resolved, observed,
                   failed_at, failed_code>>

\* check_call raised another exception (OSError: the interpreter cannot be
\* started, so there is no subprocess): no except clause matches, the finally
\* clause runs.
InvokeError ==
    /\ driver_frame
    /\ pc = "wait"
    /\ in_flight' = in_flight - 1
    /\ cut_short' = cut_short + 1
    /\ AfterInvocation(rc, interrupted, TRUE)
    /\ UNCHANGED <<args, args_given, repositories, wrapper_rc, escaped, invoked, resolved, observed,
                   failed_at, failed_code>>

\* session_wrapper 79-106: any exception of func means EXIT_INTERNALERROR.
WrapperFinish ==
    /\ driver_frame
    /\ pc = "returned"
    /\ wrapper_rc' = IF run_raised THEN EXIT_INTERNALERROR ELSE run_result
    /\ pc' = "done"
    /\ UNCHANGED <<args, args_given, repositories, run_result, run_raised, escaped>>
    /\ loop_unchanged /\ history_unchanged

DriverNext ==
    \/ WrapperParse
    \/ Setup
    \/ RunStart
    \/ Resolve
    \/ InvokeStart
    \/ InvokeClean
    \/ InvokeFailed
    \/ InvokeKeyboardInterrupt
    \/ InvokeError
    \/ WrapperFinish

Init ==
    /\ DriverInit
    /\ idle_clasifier /\ idle_generator /\ idle_markers /\ idle_run /\ idle_order
    /\ idle_plan /\ idle_reports
Next == DriverNext
Spec == Init /\ [][Next]_vars

(***************************************************************************)
(* Properties of the execution driver                                      *)
(***************************************************************************)
\* The pairs of the plan: every command of every repository.
PlanPairs == UNION {{<<r, c>> : c \in 1..resolved[r]} : r \in 1..Len(resolved)}
Invocations(p) == Cardinality({k \in 1..Len(invoked) : invoked[k] = p})
\* Every repository was resolved and each of its pairs was invoked exactly once.
WholePlanOnce ==
    /\ Len(resolved) = repositories
    /\ \A p \in PlanPairs : Invocations(p) = 1
    /\ \A k \in 1..Len(invoked) : invoked[k] \in PlanPairs
\* _run returned a value (the pytest path, not --generate-doc).
RunReturned == pc \in {"returned", "done"} /\ ~escaped /\ ~run_raised /\ invoked # <<>>

\* C1: the value _run returns is the maximum of the exit codes its invocations
\* ended with (0 for a clean exit), aborted plan or not.
C1_ReturnsMaximum ==
    (RunReturned /\ observed # {}) => run_result = Max(observed)
\* C1 witness: a plan of several pairs aborted by an internal error after a
\* failed and before an unexecuted pair; the run returned 3.
C1_Witness ==
    /\ RunReturned /\ pc = "done" /\ interrupted
    /\ observed = {EXIT_TESTSFAILED, EXIT_INTERNALERROR}
    /\ repositories = 2 /\ Len(resolved) = 1
    /\ run_result = EXIT_INTERNALERROR

\* C2 (as stated): after an exit with code 2 or 3 the remaining pairs are
\* invoked iff --ignore-internal-errors is set: unset, no later pair is invoked
\* and the final code is at least that code; set, every pair is attempted.
C2_Original ==
    (pc = "done" /\ failed_at > 0) =>
        IF args.ignore_internal_errors
          THEN WholePlanOnce
          ELSE Len(invoked) = failed_at /\ ~run_raised /\ wrapper_rc >= failed_code
\* C2 (amended): ... set, every pair is attempted unless the run is a
\* --collect-only/--help run, an invocation is cut short by KeyboardInterrupt
\* or another exception, or resolving a later checkout raises.
C2_FailFastUnlessIgnored ==
    /\ (failed_at > 0 /\ ~args.ignore_internal_errors) =>
           /\ Len(invoked) = failed_at
           /\ pc \in {"returned", "done"} /\ ~run_raised /\ run_result >= failed_code
           /\ pc = "done" => wrapper_rc >= failed_code
    /\ (pc = "done" /\ failed_at > 0 /\ args.ignore_internal_errors
          /\ ~RunOnce(args) /\ cut_short = 0 /\ ~run_raised) => WholePlanOnce
\* C2 witness: with the flag set an internal error was followed by further
\* invocations up to the end of a plan of two repositories.
C2_Witness ==
    /\ pc = "done" /\ args.ignore_internal_errors /\ failed_at = 1
    /\ failed_code = EXIT_INTERNALERROR
    /\ repositories = 2 /\ Len(invoked) >= 3 /\ WholePlanOnce
    /\ wrapper_rc = EXIT_INTERNALERROR
\* C2 witness of the other branch, kept as a reachability check.
C2_WitnessUnset ==
    /\ pc = "done" /\ ~args.ignore_internal_errors /\ failed_at = 2
    /\ repositories = 2 /\ Len(resolved) = 1 /\ resolved[1] = 2

\* C3 (as stated): if every invocation exits with 0 or 1, every pair of the
\* plan is invoked exactly once, whatever --ignore-internal-errors.
C3_Original ==
    (pc = "done" /\ invoked # <<>> /\ observed \subseteq {EXIT_OK, EXIT_TESTSFAILED}
       /\ cut_short = 0) => WholePlanOnce
\* C3 (amended): an exit with code 0 or 1 never sets interrupted, and if every
\* invocation exits with 0 or 1, the run is not a --collect-only/--help run and
\* resolving no checkout raises, every pair is invoked exactly once.
C3_TestsFailedContinues ==
    /\ (observed \subseteq {EXIT_OK, EXIT_TESTSFAILED} /\ cut_short = 0) => ~interrupted
    /\ (pc = "done" /\ invoked # <<>> /\ observed \subseteq {EXIT_OK, EXIT_TESTSFAILED}
          /\ cut_short = 0 /\ ~RunOnce(args) /\ ~run_raised) => WholePlanOnce
\* C3 witness: a failing first pair, flag unset, and the whole plan of two
\* repositories with two configurations each was run.
C3_Witness ==
    /\ pc = "done" /\ ~args.ignore_internal_errors
    /\ observed = {EXIT_OK, EXIT_TESTSFAILED} /\ rc = EXIT_OK
    /\ repositories = 2 /\ Len(invoked) = 4 /\ WholePlanOnce
    /\ wrapper_rc = EXIT_TESTSFAILED

\* C4: Testsuite.run always returns a code of 0..5 and lets no exception
\* escape; an exception on the run path gives 3.
C4_AlwaysWellFormedCode ==
    pc = "done" =>
        /\ ~escaped
        /\ wrapper_rc \in EXIT_OK..EXIT_NOTESTSCOLLECTED
        /\ run_raised => wrapper_rc = EXIT_INTERNALERROR

(***************************************************************************)
(* Strings: the operations of Python the classifier applies to texts       *)
(***************************************************************************)
Min(S) == CHOOSE m \in S : \A x \in S : m <= x
Char(s, k) == SubSeq(s, k, k)
\* str.startswith
StartsWith(s, p) == Len(p) <= Len(s) /\ SubSeq(s, 1, Len(p)) = p
\* t occurs in s at position k
ContainsAt(s, t, k) == k >= 1 /\ k + Len(t) - 1 <= Len(s) /\ SubSeq(s, k, k + Len(t) - 1) = t
\* 't in s', re.search of a literal
Contains(s, t) == \E k \in 1..Len(s) : ContainsAt(s, t, k)
\* \w and \s of the re module (no LOCALE or UNICODE flag): [a-zA-Z0-9_] and
\* [ \t\n\r\f\v]; the vertical tab is written as the character itself.
WordChars == {Char("abcdefghijklmnopqrstuvwxyzABCDEFGHIJKLMNOPQRSTUVWXYZ0123456789_", k) : k \in 1..63}
Whitespace == {" ", "\t", "\n", "\r", "\f", ""}
UpperCase == "ABCDEFGHIJKLMNOPQRSTUVWXYZ"
LowerCase == "abcdefghijklmnopqrstuvwxyz"
LowerChar(c) ==
    IF \E k \in 1..26 : Char(UpperCase, k) = c
      THEN Char(LowerCase, CHOOSE k \in 1..26 : Char(UpperCase, k) = c)
      ELSE c
RECURSIVE Lower(_)
\* str.lower
Lower(s) == IF s = "" THEN "" ELSE LowerChar(Char(s, 1)) \o Lower(SubSeq(s, 2, Len(s)))
\* The last position of the run of characters of class cs that starts at k (k-1: no run).
RunEnd(s, k, cs) ==
    LET ends == {m \in k..Len(s) : \A q \in k..m : Char(s, q) \in cs}
    IN  IF ends = {} THEN k - 1 ELSE Max(ends)

(***************************************************************************)
(* Status classes (lib/statuses.py) and names of lib/__init__.py           *)
(***************************************************************************)
STATUS_FAILED == 1
STATUS_GENERALERROR == 2
STATUS_BUILDERROR == 3
STATUS_TIMEOUT == 4
PREFIX_STATUS_ATTRIBUTE == "STATUS_"
\* STATUS_PHASE_NONE is None; the phases of a test report.
PHASE_NONE == "none"
ReportPhases == {"setup", "call", "teardown"}
STATUS_PHASE_CALL == "call"

\* lib/__init__.py: TOOL2TASK.get(tool, tool), tool name -> build system task.
TOOL2TASK(tool) ==
    CASE tool = "model" -> "model"
      [] tool = "assembler" -> "asm"
      [] tool = "disassembler" -> "dsm"
      [] tool = "compiler" -> "compiler"
      [] tool = "libs" -> "libs"
      [] tool = "simulator" -> "sim"
      [] tool = "cosimulator" -> "cosim"
      [] tool = "debugger" -> "dbg"
      [] tool = "profiler" -> "prof"
      [] tool = "random_asm" -> "random_asm"
      [] tool = "doc" -> "doc"
      [] tool = "sdk" -> "sdk"
      [] tool = "hdk" -> "hdk"
      [] tool = "rtl" -> "rtl"
      [] tool = "uvm" -> "uvm"
      [] tool = "uvm_fu" -> "_uvm_fu"
      [] tool = "sdk_tools" -> "_sdk_tools"
      [] tool = "hdk_tools" -> "_hdk_tools"
      [] tool = "backend" -> "_backend"
      [] tool = "include" -> "_include"
      [] tool = "remove_options" -> "_remove_options"
      [] OTHER -> tool

Attr(name, sid) == [name |-> name, sid |-> sid]
COMMON_ERRORS == {Attr("GENERALERROR", STATUS_GENERALERROR),
                  Attr("BUILDERROR", STATUS_BUILDERROR),
                  Attr("TIMEOUT", STATUS_TIMEOUT)}

\* A TASK_PATTERN '^w$' (or '^_(a|b)_tools$') is anchored at both ends, '^w' only
\* at the start; a class without TASK_PATTERN has no words.
Pattern(words, whole) == [words |-> words, whole |-> whole]
NoPattern == Pattern({}, TRUE)
StatusClass(item_id, item_name, common, pattern, attrs) ==
    [ITEM_ID |-> item_id, ITEM_NAME |-> item_name, SUPPORT_COMMON_ERRORS |-> common,
     TASK_PATTERN |-> pattern, attrs |-> attrs]

StatusBootstrap ==
    StatusClass(5, "bootstrap", FALSE, NoPattern,
        {Attr("STATUS_EXIT_OK", 0), Attr("STATUS_EXIT_FAIL", 1),
         Attr("STATUS_EXIT_FAIL_PACKAGING", 2), Attr("STATUS_EXIT_FAIL_MODEL", 3),
         Attr("STATUS_EXIT_FAIL_CLANG", 10), Attr("STATUS_EXIT_FAIL_CONTRIB", 15),
         Attr("STATUS_EXIT_FAIL_ECLIPSE", 20), Attr("STATUS_EXIT_FAIL_GNU_BINUTILS", 25),
         Attr("STATUS_EXIT_FAIL_IDE", 30), Attr("STATUS_EXIT_FAIL_INSTALLER", 35),
         Attr("STATUS_EXIT_FAIL_LIBRARY", 40), Attr("STATUS_EXIT_FAIL_LLVM", 45),
         Attr("STATUS_EXIT_FAIL_LMX", 50), Attr("STATUS_EXIT_FAIL_MINGW", 55),
         Attr("STATUS_EXIT_FAIL_MSYS2", 60), Attr("STATUS_EXIT_FAIL_RTL_CACHE", 65),
         Attr("STATUS_EXIT_FAIL_THIRD_PARTY", 70), Attr("STATUS_EXIT_FAIL_TOOLS", 75),
         Attr("STATUS_EXIT_FAIL_VIP_DATA", 80), Attr("STATUS_EXIT_FAIL_VIP_JTAG", 85),
         Attr("STATUS_EXIT_FAIL_ZERO_TOLERANCE", 90), Attr("STATUS_EXIT_FAIL_LLDB", 95),
         Attr("STATUS_EXIT_FAIL_OPENOCD", 100)})
StatusInternal ==
    StatusClass(0, "internal", FALSE, NoPattern,
        {Attr("STATUS_OK", 1), Attr("STATUS_EXIT_TESTSFAILED", 2),
         Attr("STATUS_EXIT_INTERRUPTED", 3), Attr("STATUS_EXIT_INTERNALERROR", 4),
         Attr("STATUS_EXIT_USAGEERROR", 5), Attr("STATUS_EXIT_NOTESTSCOLLECTED", 6),
         Attr("STATUS_FAILED", STATUS_FAILED), Attr("STATUS_INVALIDCOMMAND", 10)})
StatusModelCompilation == StatusClass(1, "model", TRUE, Pattern({TOOL2TASK("model")}, TRUE), {})
StatusSemantics == StatusClass(2, "semantics", TRUE, Pattern({"_semextr_"}, FALSE), {})
StatusAssembler == StatusClass(3, "assembler", TRUE, Pattern({TOOL2TASK("assembler")}, TRUE), {})
StatusDisassembler == StatusClass(4, "disassembler", TRUE, Pattern({TOOL2TASK("disassembler")}, TRUE), {})
StatusCompiler == StatusClass(5, "compiler", TRUE, Pattern({TOOL2TASK("compiler")}, TRUE), {})
StatusLibraries == StatusClass(6, "libs", TRUE, Pattern({"_libs_"}, FALSE), {})
StatusSimulator == StatusClass(7, "simulator", TRUE, Pattern({TOOL2TASK("simulator")}, TRUE), {})
StatusDebugger == StatusClass(8, "debugger", TRUE, NoPattern, {})
StatusProfiler == StatusClass(9, "profiler", TRUE, Pattern({TOOL2TASK("profiler")}, TRUE), {})
StatusCosimulator == StatusClass(10, "cosimulator", TRUE, Pattern({TOOL2TASK("cosimulator")}, TRUE), {})
StatusRandomAssembler == StatusClass(11, "random_asm", TRUE, Pattern({TOOL2TASK("random_asm")}, TRUE), {})
StatusRtl == StatusClass(12, "rtl", TRUE, Pattern({TOOL2TASK("rtl")}, TRUE), {})
StatusUvm ==
    StatusClass(13, "uvm", TRUE, Pattern({TOOL2TASK("uvm")}, TRUE),
        {Attr("STATUS_TIMEOUT_DUT", 10), Attr("STATUS_TIMEOUT_GM", 11),
         Attr("STATUS_TIMEOUT_DUT_AND_GM", 12)})
StatusUvmFu == StatusClass(14, "uvm_fu", TRUE, Pattern({TOOL2TASK("uvm_fu")}, TRUE), {})
StatusTools == StatusClass(15, "task_tools", TRUE, Pattern({"_sdk_tools", "_hdk_tools"}, TRUE), {})

\* status_classes(): the Status* classes of the module, by name.
ClassNames == {"StatusBootstrap", "StatusInternal", "StatusModelCompilation",
               "StatusSemantics", "StatusAssembler", "StatusDisassembler", "StatusCompiler",
               "StatusLibraries", "StatusSimulator", "StatusDebugger", "StatusProfiler",
               "StatusCosimulator", "StatusRandomAssembler", "StatusRtl", "StatusUvm",
               "StatusUvmFu", "StatusTools"}
status_classes ==
    [c \in ClassNames |->
        CASE c = "StatusBootstrap" -> StatusBootstrap
          [] c = "StatusInternal" -> StatusInternal
          [] c = "StatusModelCompilation" -> StatusModelCompilation
          [] c = "StatusSemantics" -> StatusSemantics
          [] c = "StatusAssembler" -> StatusAssembler
          [] c = "StatusDisassembler" -> StatusDisassembler
          [] c = "StatusCompiler" -> StatusCompiler
          [] c = "StatusLibraries" -> StatusLibraries
          [] c = "StatusSimulator" -> StatusSimulator
          [] c = "StatusDebugger" -> StatusDebugger
          [] c = "StatusProfiler" -> StatusProfiler
          [] c = "StatusCosimulator" -> StatusCosimulator
          [] c = "StatusRandomAssembler" -> StatusRandomAssembler
          [] c = "StatusRtl" -> StatusRtl
          [] c = "StatusUvm" -> StatusUvm
          [] c = "StatusUvmFu" -> StatusUvmFu
          [] c = "StatusTools" -> StatusTools]

\* lib/__init__.py: ITEM2TITLE, an OrderedDict of task name -> title.
ITEM2TITLE ==
    << <<"model", "Model Compilation">>, <<"semantics", "semantics">>,
       <<"asm", "Assembler">>, <<"dsm", "Disassembler">>,
       <<"compiler", "C/C++ Compiler">>, <<"libs", "SDK Libraries">>,
       <<"sim", "Simulator">>, <<"cosim", " Co-simulator">>,
       <<"dbg", "Debugger">>, <<"prof", "Profiler">>,
       <<"random_asm", "Random Assembler Programs">>, <<"doc", "Documentation">>,
       <<"_sdk_tools", "SDK Tools">>, <<"sdk", "SDK">>, <<"rtl", "RTL">>,
       <<"_uvm_fu", "UVM Verification of functional units">>,
       <<"uvm", "UVM Verification">>, <<"_hdk_tools", "HDK Tools">>,
       <<"hdk", "HDK">>, <<"publish_ip", "IP Publication">>,
       <<"_remove_options", "Remove Options">> >>

(***************************************************************************)
(* Status objects and Status.status                                        *)
(***************************************************************************)
\* A classification result: a Status instance, None, or a raised exception.
StatusObject(cls, sid, code, phase) ==
    [kind |-> "status", cls |-> cls, sid |-> sid, code |-> code, phase |-> phase]
None == [kind |-> "none", cls |-> "", sid |-> 0, code |-> "", phase |-> ""]
Raise(exc) == [kind |-> "raise", cls |-> "", sid |-> 0, code |-> exc, phase |-> ""]

\* Status.get_status_attributes: the STATUS_* attributes of the class itself
\* and, with include_common, the common errors (which replace an attribute of
\* the same name).
get_status_attributes(cls, include_common) ==
    LET own == status_classes[cls].attrs
        common == {Attr(PREFIX_STATUS_ATTRIBUTE \o a.name, a.sid) : a \in COMMON_ERRORS}
    IN  IF include_common
          THEN {a \in own : \A b \in common : b.name # a.name} \cup common
          ELSE own

\* Status._status_name: the attribute name without the STATUS_ prefix.
status_name(attribute) ==
    SubSeq(attribute, Len(PREFIX_STATUS_ATTRIBUTE) + 1, Len(attribute))

\* Line 131: execution statuses are those named *OK* or *EXIT*.
is_execution_result(name) == Contains(name, "OK") \/ Contains(name, "EXIT")

\* Line 132: the attribute is skipped when bool(phase) == is_execution_result.
status_keeps(name, phase) == (phase # PHASE_NONE) # is_execution_result(name)

\* Status.status(id, phase): the results the loop over the attribute dict can
\* return, one per attribute the loop may reach first; None when it reaches none.
status(cls, id, phase) ==
    LET hits == {a \in get_status_attributes(cls, status_classes[cls].SUPPORT_COMMON_ERRORS) :
                    a.sid = id /\ status_keeps(a.name, phase)}
    IN  IF hits = {} THEN {None}
        ELSE {StatusObject(cls, a.sid, status_name(a.name), phase) : a \in hits}

\* Status.search_task: re.search(TASK_PATTERN, string); '$' matches at the end
\* of the string and before a newline that ends it.
search_task(cls, string) ==
    LET pattern == status_classes[cls].TASK_PATTERN
    IN  \E w \in pattern.words :
            IF pattern.whole THEN string = w \/ string = w \o "\n"
            ELSE StartsWith(string, w)

(***************************************************************************)
(* StatusClasifier (lib/internal.py) and the _clasify_* handlers           *)
(***************************************************************************)
\* find_status_class(item_name=..., precise=True): the classes the loop over
\* the set self._classes may return (none: the call returns None).
find_status_class(item_name) ==
    {c \in ClassNames : status_classes[c].ITEM_NAME = item_name}

\* re.search('\s' + ITEM_NAME + '\s', text)
NameBetweenSpaces(name, text) ==
    \E k \in 1..Len(text) :
        /\ Char(text, k) \in Whitespace
        /\ ContainsAt(text, name, k + 1)
        /\ k + Len(name) + 1 <= Len(text)
        /\ Char(text, k + Len(name) + 1) \in Whitespace

\* find_status_class(item_name=log, precise=False)
find_status_class_in_log(log) ==
    {c \in ClassNames : NameBetweenSpaces(status_classes[c].ITEM_NAME, Lower(log))}

\* re.search('\s(\w+)\.', line): the word of the leftmost match, "" for no match.
TaskMatchAt(line, k) ==
    /\ Char(line, k) \in Whitespace
    /\ RunEnd(line, k + 1, WordChars) >= k + 1
    /\ RunEnd(line, k + 1, WordChars) + 1 <= Len(line)
    /\ Char(line, RunEnd(line, k + 1, WordChars) + 1) = "."
TaskSearch(line) ==
    LET ks == {k \in 1..Len(line) : TaskMatchAt(line, k)}
    IN  IF ks = {} THEN ""
        ELSE SubSeq(line, Min(ks) + 1, RunEnd(line, Min(ks) + 1, WordChars))

\* The titles of ITEM2TITLE that occur in a line, by position in the table.
TitlesIn(line) == {t \in 1..Len(ITEM2TITLE) : Contains(line, ITEM2TITLE[t][2])}

\* StatusClasifier._failed_task_name (exc is a ToolBuildError, not a doit
\* InvalidCommand): the lines of stderr, last first, then those of stdout;
\* "" stands for None.
failed_task_name(stderr, stdout) ==
    LET fatal == {n \in 1..Len(stderr) :
                     StartsWith(stderr[n], "fatal:") /\ TaskSearch(stderr[n]) # ""}
        progress == {n \in 1..Len(stdout) :
                        StartsWith(stdout[n], ".") /\ TitlesIn(stdout[n]) # {}}
    IN  IF fatal # {} THEN TaskSearch(stderr[Max(fatal)])
        ELSE IF progress # {} THEN ITEM2TITLE[Min(TitlesIn(stdout[Max(progress)]))][1]
        ELSE ""

\* re.search('E\s+(?P<excname>\w+(Error|Exception))', log): group excname of
\* the leftmost match, "" for no match.  p is the start of the word after the
\* white space, a the length \w+ keeps (the longest that leaves Error or
\* Exception behind it).
ExcSuffix(log, q) ==
    IF ContainsAt(log, "Error", q) THEN "Error"
    ELSE IF ContainsAt(log, "Exception", q) THEN "Exception" ELSE ""
ExcLengths(log, p) ==
    {a \in 1..Len(log) : p + a - 1 <= RunEnd(log, p, WordChars) /\ ExcSuffix(log, p + a) # ""}
ExcMatchAt(log, k) ==
    /\ Char(log, k) = "E"
    /\ RunEnd(log, k + 1, Whitespace) >= k + 1
    /\ ExcLengths(log, RunEnd(log, k + 1, Whitespace) + 1) # {}
ExcName(log) ==
    LET ks == {k \in 1..Len(log) : ExcMatchAt(log, k)}
    IN  IF ks = {} THEN ""
        ELSE LET p == RunEnd(log, Min(ks) + 1, Whitespace) + 1
                 a == Max(ExcLengths(log, p))
             IN  SubSeq(log, p, p + a - 1) \o ExcSuffix(log, p + a)

\* Status._clasify_ToolBuildError
Status_clasify_ToolBuildError(cls, report) == status(cls, STATUS_BUILDERROR, report.when)

\* Status._clasify_other: with a STATUS_* attribute of its own the class is
\* instantiated as cls(id, *attributes, phase=report.when), which passes phase
\* twice (TypeError); without one the loop body never runs.
Status_clasify_other(cls, report) ==
    IF get_status_attributes(cls, FALSE) # {}
      THEN {Raise("TypeError")}
      ELSE status(cls, STATUS_GENERALERROR, report.when)

\* Status._clasify_ToolError and its override StatusUvm._clasify_ToolError: the
\* first line after the header of the uvm report that names a timeout decides.
UvmTimeout(line) ==
    IF Contains(line, "timeout (DUT)") THEN 10
    ELSE IF Contains(line, "timeout (GOLD)") THEN 11
    ELSE IF Contains(line, "timeout (DUT and GOLD)") THEN 12
    ELSE 0
Status_clasify_ToolError(cls, report) ==
    LET lines == {n \in 2..Len(report.uvm_report) : UvmTimeout(report.uvm_report[n]) # 0}
    IN  IF cls = "StatusUvm" /\ lines # {}
          THEN status(cls, UvmTimeout(report.uvm_report[Min(lines)]), report.when)
          ELSE status(cls, STATUS_GENERALERROR, report.when)

\* StatusInternal._clasify_other and _clasify_InvalidCommand
StatusInternal_clasify_other(report) == status("StatusInternal", STATUS_FAILED, report.when)
StatusInternal_clasify_InvalidCommand(report) == status("StatusInternal", 10, report.when)

\* getattr(cls, '_clasify_' + typename, cls._clasify_other)(item, report, exc)
\* for a status class cls.  The names 'xml_ToolError' and 'xml_other' find the
\* handlers of the xml records, which take one argument: the call with three
\* raises TypeError.
ClassHandler(cls, typename, report) ==
    CASE typename = "ToolBuildError" -> Status_clasify_ToolBuildError(cls, report)
      [] typename \in {"xml_ToolError", "xml_other"} -> {Raise("TypeError")}
      [] typename = "ToolError" -> Status_clasify_ToolError(cls, report)
      [] typename = "InvalidCommand" /\ cls = "StatusInternal" ->
            StatusInternal_clasify_InvalidCommand(report)
      [] OTHER -> IF cls = "StatusInternal"
                    THEN StatusInternal_clasify_other(report)
                    ELSE Status_clasify_other(cls, report)

\* StatusClasifier._clasify_ToolBuildError
Clasifier_clasify_ToolBuildError(report) ==
    LET item_name == failed_task_name(report.stderr, report.stdout)
        matching == {c \in ClassNames : search_task(c, item_name)}
    IN  IF item_name # "" /\ matching # {}
          THEN UNION {Status_clasify_ToolBuildError(c, report) : c \in matching}
          ELSE status("StatusInternal", STATUS_BUILDERROR, report.when)

\* The same dispatch on the classifier itself (cls = self); the name 'xml'
\* finds _clasify_xml(result), and the call with three arguments raises TypeError.
ClasifierHandler(typename, report) ==
    CASE typename = "ToolBuildError" -> Clasifier_clasify_ToolBuildError(report)
      [] typename = "xml" -> {Raise("TypeError")}
      [] typename = "InvalidCommand" -> StatusInternal_clasify_InvalidCommand(report)
      [] OTHER -> StatusInternal_clasify_other(report)

\* StatusClasifier._get_passed_status and _get_general_failed_status
get_passed_status == status("StatusInternal", STATUS_FAILED, PHASE_NONE)
get_general_failed_status(phase) == status("StatusInternal", STATUS_FAILED, phase)

\* StatusClasifier._clasify(item, call, report)
clasify_live(report) ==
    IF report.passed THEN get_passed_status
    ELSE IF report.has_tool /\ find_status_class(report.tool) # {}
      THEN UNION {ClassHandler(c, report.typename, report) : c \in find_status_class(report.tool)}
      ELSE ClasifierHandler(report.typename, report)

\* Status._clasify_xml_ToolError, its override in StatusDebugger, and
\* Status._clasify_xml_other.
Status_clasify_xml_ToolError(cls, log) ==
    LET marker == IF cls = "StatusDebugger" THEN "Timeout" ELSE "has timed out"
    IN  status(cls, IF Contains(log, marker) THEN STATUS_TIMEOUT ELSE STATUS_GENERALERROR,
               STATUS_PHASE_CALL)
Status_clasify_xml_other(cls) == status(cls, STATUS_GENERALERROR, STATUS_PHASE_CALL)

\* StatusClasifier._clasify_xml(result)
clasify_xml(result) ==
    IF result.skipped THEN {None}
    ELSE IF result.passed THEN get_passed_status
    ELSE IF find_status_class_in_log(result.log) # {} /\ ExcName(result.log) # ""
      THEN UNION {IF ExcName(result.log) = "ToolError"
                    THEN Status_clasify_xml_ToolError(c, result.log)
                    ELSE Status_clasify_xml_other(c)
                  : c \in find_status_class_in_log(result.log)}
      ELSE get_general_failed_status(STATUS_PHASE_CALL)

(***************************************************************************)
(* The classifier as a state machine: one test result is classified        *)
(***************************************************************************)
\* A test result.  Live (from_xml = FALSE): report.passed, report.when,
\* hasattr(report, 'tool') and report.tool, call.excinfo.typename, the lines of
\* exc.stderr and exc.stdout (the text split at '\n'), the lines of the file
\* the metadata entry uvm_report_path names (none: no such file).  Offline
\* (from_xml = TRUE): result['skipped'], result['passed'], result['log'].
Result(from_xml, passed, skipped, when, has_tool, tool, typename, stderr, stdout, uvm_report, log) ==
    [from_xml |-> from_xml, passed |-> passed, skipped |-> skipped, when |-> when,
     has_tool |-> has_tool, tool |-> tool, typename |-> typename,
     stderr |-> stderr, stdout |-> stdout, uvm_report |-> uvm_report, log |-> log]

\* Tool names a report carries: those of the status classes and one without a class.
ToolNames == {status_classes[c].ITEM_NAME : c \in ClassNames} \cup {"qemu"}
ExceptionTypes == {"ToolBuildError", "ToolError", "InvalidCommand", "AssertionError"}

\* Error output of a failed build: nothing, the message format the comment of
\* _failed_task_name quotes, and messages that end in a task file (one of them
\* with a carriage return for a blank).
Stderrs ==
    {<<>>,
     <<"fatal: TaskFailed - task:model.ia:codasip_urisc.ia">>,
     <<"fatal: Error in sim.ia">>,
     <<"fatal: Error in dbg.ia", "warning: 1 task failed">>,
     <<"fatal: Error in _semextr_codasip_urisc.ia">>,
     <<"error: Error in uvm.ia">>,
     <<"fatal:\rasm.ia">>}
\* Progress output of a failed build: nothing, or the progress line of one task
\* after the line of the model.
ProgressLine(t) == ".  " \o ITEM2TITLE[t][2] \o " codasip_urisc.ia"
Stdouts ==
    {<<>>} \cup {<<ProgressLine(1), ProgressLine(t)>> : t \in 1..Len(ITEM2TITLE)}
UvmReports ==
    {<<>>,
     <<"UVM report", "test passed">>,
     <<"timeout (DUT)", "test passed">>,
     <<"UVM report", "simulation timeout (DUT) after 10 us">>,
     <<"UVM report", "simulation timeout (GOLD) after 10 us">>,
     <<"UVM report", "simulation timeout (DUT and GOLD) after 10 us">>}
Logs ==
    {"",
     "assert 1 == 2",
     "E   AssertionError: assert 1 == 2",
     "E   ToolError: simulator has timed out\n",
     "E   ToolError: simulator failed with exit code 1\n",
     "E   ToolError: debugger Timeout\n",
     "E   ToolError: debugger has timed out\n",
     "E   ToolBuildError: Compiler build failed\n",
     "E   ToolError: internal failure\n",
     "E   Exception: bootstrap failed\n",
     "E   ToolError: uvm has timed out\n",
     "E   ToolError: the simulator\r\n has timed out\r\n",
     "E\rToolError: the simulator failed\n",
     "the simulator crashed"}

LiveResults ==
    {Result(FALSE, passed, FALSE, when, tool # "", tool, typename, <<>>, <<>>, <<>>, "") :
        passed \in BOOLEAN, when \in ReportPhases, tool \in ToolNames \cup {""},
        typename \in ExceptionTypes}
BuildResults ==
    {Result(FALSE, FALSE, FALSE, when, FALSE, "", "ToolBuildError", stderr, stdout, <<>>, "") :
        when \in ReportPhases, stderr \in Stderrs, stdout \in Stdouts}
UvmResults ==
    {Result(FALSE, FALSE, FALSE, when, TRUE, tool, "ToolError", <<>>, <<>>, uvm_report, "") :
        when \in ReportPhases, tool \in {"uvm", "rtl"}, uvm_report \in UvmReports}
XmlResults ==
    {Result(TRUE, passed, skipped, "", FALSE, "", "", <<>>, <<>>, <<>>, log) :
        passed \in BOOLEAN, skipped \in BOOLEAN, log \in Logs}
ClasifyInputs == LiveResults \cup BuildResults \cup UvmResults \cup XmlResults

ClasifyInit ==
    /\ idle_driver /\ idle_generator /\ idle_markers /\ idle_run /\ idle_order
    /\ idle_plan /\ idle_reports
    /\ cpc = "ready"
    /\ cin \in ClasifyInputs
    /\ cres = None

clasifier_frame == UNCHANGED <<driver_vars, generator_vars, marker_vars, run_vars, order_vars, plan_vars, report_vars>>

\* StatusClasifier.clasify(False, item, call, report)
Clasify ==
    /\ clasifier_frame
    /\ cpc = "ready"
    /\ ~cin.from_xml
    /\ cres' \in clasify_live(cin)
    /\ cpc' = "done"
    /\ UNCHANGED cin

\* StatusClasifier.clasify(True, result)
ClasifyXml ==
    /\ clasifier_frame
    /\ cpc = "ready"
    /\ cin.from_xml
    /\ cres' \in clasify_xml(cin)
    /\ cpc' = "done"
    /\ UNCHANGED cin

ClasifyNext == Clasify \/ ClasifyXml
SpecClasify == ClasifyInit /\ [][ClasifyNext]_vars

(***************************************************************************)
(* Properties of the classifier                                            *)
(***************************************************************************)
\* A failed live report that has been classified.
FailedLive == cpc = "done" /\ ~cin.from_xml /\ ~cin.passed
\* The report names no tool with a status class: the handlers of the
\* classifier itself are used.
ByDefaultClasifier == FailedLive /\ (~cin.has_tool \/ find_status_class(cin.tool) = {})
\* The status classes declared for the pipeline stage a task name stands for.
StageClasses(task) ==
    {c \in ClassNames \ {"StatusInternal", "StatusBootstrap"} :
        TOOL2TASK(status_classes[c].ITEM_NAME) = task}

\* C5: live classification is total: a failed report of phase setup, call or
\* teardown, with any locatable status class (or none) and any exception type,
\* is given a Status of that phase; the result is never None and no exception
\* is raised.
C5_LiveClassificationTotal ==
    FailedLive => (cres.kind = "status" /\ cres.phase = cin.when)

\* C6: a ToolBuildError classified by the default classifier, when no task
\* name is recovered from the output or no status class matches the recovered
\* name, gives the generic build-error status of the report's phase, never None.
C6_GenericBuildErrorNeverDropped ==
    (/\ ByDefaultClasifier
     /\ cin.typename = "ToolBuildError"
     /\ \A c \in ClassNames : ~search_task(c, failed_task_name(cin.stderr, cin.stdout)))
    => (cres.kind = "status" /\ cres.code = "BUILDERROR" /\ cres.phase = cin.when)

\* C7: whenever a task name is recovered from the output of a ToolBuildError
\* and the stage of that name has a declared status class, the result is the
\* build-error status of exactly that class.
C7_RecoveredStageDecidesClass ==
    (/\ ByDefaultClasifier
     /\ cin.typename = "ToolBuildError"
     /\ StageClasses(failed_task_name(cin.stderr, cin.stdout)) # {})
    => \E c \in StageClasses(failed_task_name(cin.stderr, cin.stdout)) :
           cres = StatusObject(c, STATUS_BUILDERROR, "BUILDERROR", cin.when)

\* C8: offline classification returns None exactly for a skipped record, the
\* fixed OK status for a passed record that is not skipped, and a Status of
\* the call phase for every other record.
C8_OfflineClassification ==
    (cpc = "done" /\ cin.from_xml) =>
        /\ (cres = None) <=> cin.skipped
        /\ (~cin.skipped /\ cin.passed) =>
               cres = StatusObject("StatusInternal", STATUS_FAILED, "OK", PHASE_NONE)
        /\ (~cin.skipped /\ ~cin.passed) =>
               (cres.kind = "status" /\ cres.phase = STATUS_PHASE_CALL)

(***************************************************************************)
(* Combination generator (lib/helpers.py: generate_combinations)           *)
(***************************************************************************)
\* Python values of the dictionary: True, False, the integer 1 (s is
\* str(value)), and lists of them.  A tuple or a set behaves as the
\* list of its elements in iteration order.
PyTrue == [kind |-> "bool", s |-> "True", items |-> <<>>]
PyFalse == [kind |-> "bool", s |-> "False", items |-> <<>>]
PyInt == [kind |-> "int", s |-> "1", items |-> <<>>]
PyList(items) == [kind |-> "list", s |-> "", items |-> items]
Scalars == {PyTrue, PyFalse, PyInt}

\* utils.is_iterable: isinstance(object, (list, tuple, set))
is_iterable(object) == object.kind \in {"list", "tuple", "set"}

\* A dictionary is the sequence of its <<key, value>> items in iteration
\* order.  The interpreter of this code (Python 2) keeps a dictionary of at
\* most five keys in a table of eight slots and iterates it by slot; a key
\* goes to the first free slot of its probe sequence (hash & 7, then
\* i = 5 * i + perturb + 1 with perturb >>= 5), so the order depends on the
\* keys and, for keys that meet in a slot, on the order of insertion.
\* The probe sequences of the one-letter keys used here.
Probes(key) ==
    CASE key = "a" -> <<0, 1, 5, 6, 2, 3>>
      [] key = "b" -> <<3, 3, 3, 4, 2, 5>>
      [] key = "e" -> <<4, 1, 5, 7, 0, 2>>
      [] key = "m" -> <<4, 1, 5, 2, 1, 7>>
Slots == 0..7
\* table[slot]: the key in the slot, "" for a free slot
free_slot(table, key) ==
    Probes(key)[Min({q \in 1..Len(Probes(key)) : table[Probes(key)[q]] = ""})]
RECURSIVE dict_table(_)
\* The table after the distinct keys ks were set, in this order, in an empty dictionary.
dict_table(ks) ==
    IF Len(ks) = 0 THEN [slot \in Slots |-> ""]
    ELSE LET table == dict_table(SubSeq(ks, 1, Len(ks) - 1))
         IN  [table EXCEPT ![free_slot(table, ks[Len(ks)])] = ks[Len(ks)]]
\* The keys of that dictionary in iteration order.
dict_order(ks) ==
    LET table == dict_table(ks)
        used == {slot \in Slots : table[slot] # ""}
    IN  [n \in 1..Len(ks) |->
            table[CHOOSE slot \in used : Cardinality({u \in used : u < slot}) = n - 1]]

\* Lines 229-235: keys and values of the dictionary in its iteration order, a
\* value that is not iterable wrapped in a list.
keys(dict) == [k \in 1..Len(dict) |-> dict[k][1]]
values(dict) ==
    [k \in 1..Len(dict) |-> IF is_iterable(dict[k][2]) THEN dict[k][2].items ELSE <<dict[k][2]>>]

RECURSIVE extend(_, _)
\* The tuples of front, in order, each continued by every element of last.
extend(front, last) ==
    IF Len(front) = 0 THEN <<>>
    ELSE [k \in 1..Len(last) |-> Append(front[1], last[k])] \o extend(Tail(front), last)

RECURSIVE product_pairwise(_)
\* itertools.product under a fault: the factors are paired up element by element.
product_pairwise(vs) ==
    IF Len(vs) = 0 THEN << <<>> >>
    ELSE LET front == product_pairwise(SubSeq(vs, 1, Len(vs) - 1))
             last == vs[Len(vs)]
         IN  [k \in 1..Min({Len(front), Len(last)}) |-> Append(front[k], last[k])]

RECURSIVE product(_)
\* itertools.product(*values): the tuples in order, the last factor varying fastest.
product(vs) ==
    IF Len(vs) = 0 THEN << <<>> >>
    ELSE extend(product(SubSeq(vs, 1, Len(vs) - 1)), vs[Len(vs)])

\* Lines 241-245: the combination of a tuple, a new dictionary in which
\* keys[i] is set to c[i] for i = 0, 1, ...; its items in its own iteration order.
combination_of(ks, c) ==
    LET order == dict_order(ks)
        at(key) == CHOOSE k \in 1..Len(ks) : ks[k] = key
    IN  [n \in 1..Len(c) |-> <<order[n], c[at(order[n])]>>]

\* default_generator; "" stands for None.
default_generator(key, value) ==
    IF value = PyTrue THEN key
    ELSE IF value = PyFalse THEN ""
    ELSE key \o ":" \o value.s

\* The id_generator argument: None (the default generator is used), the
\* id_gen of the docstring (str(value)), and a function that returns None.
IdGenerators == {"None", "id_gen", "nothing"}
id_generator_call(fn, key, value) ==
    CASE fn = "None" -> default_generator(key, value)
      [] fn = "id_gen" -> value.s
      [] fn = "nothing" -> ""

RECURSIVE join(_)
\* ','.join(fields)
join(fields) ==
    IF Len(fields) = 0 THEN ""
    ELSE IF Len(fields) = 1 THEN fields[1]
    ELSE fields[1] \o "," \o join(Tail(fields))

\* generate_id under a fault: empty parts are joined like the others.
generate_id_keeps_empty(config, fn) ==
    join([k \in 1..Len(config) |-> id_generator_call(fn, config[k][1], config[k][2])])

\* generate_id(config, fn)
generate_id(config, fn) ==
    LET part(k) == id_generator_call(fn, config[k][1], config[k][2])
        kept == SelectSeq([k \in 1..Len(config) |-> part(k)], LAMBDA x : x # "")
    IN  join(kept)

\* The filters argument: a list of functions, each with its number of declared
\* parameters.  no_false(combination) rejects a combination with a value
\* False; if_config(combination, config) returns config; three_args(a, b, c)
\* is no filter function.
Filter(name, nargs) == [name |-> name, nargs |-> nargs]
no_false == Filter("no_false", 1)
if_config == Filter("if_config", 2)
three_args == Filter("three_args", 3)
\* Line 225: filter_args[f]
filter_args(f, config) == IF f.nargs = 2 THEN <<config>> ELSE <<>>
\* f(combination, *args)
filter_call(f, combination, fargs) ==
    CASE f.name = "no_false" -> \A k \in 1..Len(combination) : combination[k][2] # PyFalse
      [] f.name = "if_config" -> fargs[1]
      [] OTHER -> TRUE

\* What generate_combinations ends with: the returned pair, or the exception.
Returned(combinations, ids) ==
    [kind |-> "return", combinations |-> combinations, ids |-> ids, id |-> "", duplicates |-> <<>>]
Raised(exc, id, duplicates) ==
    [kind |-> exc, combinations |-> <<>>, ids |-> <<>>, id |-> id, duplicates |-> duplicates]

\* Line 247 under a fault: only the first filter is asked.
filtered_first_only(combination, filters, config) ==
    Len(filters) > 0 /\ ~filter_call(filters[1], combination, filter_args(filters[1], config))

\* Line 247: filters is not empty and some filter rejects the combination.
filtered(combination, filters, config) ==
    \E n \in 1..Len(filters) :
        ~filter_call(filters[n], combination, filter_args(filters[n], config))

RECURSIVE generate_loop(_, _, _, _, _, _)
\* Lines 240-256: the loop over the tuples of the product from tuple n on, with
\* the combinations and ids collected so far.
generate_loop(ks, all, n, combinations, ids, call) ==
    IF n > Len(all) THEN Returned(combinations, ids)
    ELSE LET combination == combination_of(ks, all[n])
             id == generate_id(combination, call.id_generator)
         IN  IF filtered(combination, call.filters, call.config)
               THEN generate_loop(ks, all, n + 1, combinations, ids, call)
             ELSE IF id # "" /\ \E m \in 1..Len(ids) : ids[m] = id
               THEN Raised("ValueError", id,
                           <<combination,
                             combinations[Min({m \in 1..Len(ids) : ids[m] = id})]>>)
             ELSE generate_loop(ks, all, n + 1, Append(combinations, combination),
                                Append(ids, id), call)

generate_combinations(dict, id_generator, filters, config) ==
    IF Len(dict) = 0 THEN Returned(<<>>, <<>>)
    ELSE IF \E n \in 1..Len(filters) : ~(1 <= filters[n].nargs /\ filters[n].nargs <= 2)
      THEN Raised("AssertionError", "", <<>>)
    ELSE generate_loop(keys(dict), product(values(dict)), 1, <<>>, <<>>,
                       [id_generator |-> id_generator, filters |-> filters, config |-> config])

\* The calls: dictionaries of up to MaxKeys keys, each value a scalar or a
\* list of up to MaxVals scalars.  The keys are one of the sets of KeySets
\* ('a' and 'b' have slots of their own, 'e' and 'm' meet in one slot), in an
\* iteration order some order of insertion gives.  The elements of a
\* list come in one order of the scalars (False, True, 1), repetitions
\* included: another order of the same elements permutes the result.
KeySets == {{}, {"a"}, {"a", "b"}, {"e", "m"}, {"a", "e", "m"}}
Orders(S) == {ks \in [1..Cardinality(S) -> S] : \A m, n \in 1..Cardinality(S) : m # n => ks[m] # ks[n]}
KeyOrders == UNION {{dict_order(ks) : ks \in Orders(S)} : S \in {T \in KeySets : Cardinality(T) <= MaxKeys}}
ScalarRank(v) == CASE v = PyFalse -> 0 [] v = PyTrue -> 1 [] v = PyInt -> 2
Lists ==
    {l \in UNION {[1..n -> Scalars] : n \in 0..MaxVals} :
        \A k \in 1..(Len(l) - 1) : ScalarRank(l[k]) <= ScalarRank(l[k + 1])}
DictValues == Scalars \cup {PyList(l) : l \in Lists}
FilterLists == {<<>>, <<no_false>>, <<no_false, if_config>>, <<no_false, three_args>>}
Call(dict, id_generator, filters, config) ==
    [dict |-> dict, id_generator |-> id_generator, filters |-> filters, config |-> config]
\* A custom id function without filters, or filters with the default ids.
IsCall(call) ==
    \E ks \in KeyOrders : \E vs \in [1..Len(ks) -> DictValues] :
        LET dict == [k \in 1..Len(ks) |-> <<ks[k], vs[k]>>]
        IN  \/ \E id_generator \in IdGenerators : call = Call(dict, id_generator, <<>>, FALSE)
            \/ \E filters \in FilterLists \ {<<>>} : call = Call(dict, "None", filters, FALSE)
            \/ call = Call(dict, "None", <<no_false, if_config>>, TRUE)

GenerateInit ==
    /\ idle_driver /\ idle_clasifier /\ idle_markers /\ idle_run /\ idle_order
    /\ idle_plan /\ idle_reports
    /\ gpc = "ready"
    /\ IsCall(gin)
    /\ gres = Returned(<<>>, <<>>)

\* generate_combinations(dict, id_generator, filters, config)
GenerateCombinations ==
    /\ UNCHANGED <<driver_vars, clasifier_vars, marker_vars, run_vars, order_vars, plan_vars, report_vars>>
    /\ gpc = "ready"
    /\ gres' = generate_combinations(gin.dict, gin.id_generator, gin.filters, gin.config)
    /\ gpc' = "done"
    /\ UNCHANGED gin

GenerateNext == GenerateCombinations
SpecGenerate == GenerateInit /\ [][GenerateNext]_vars

(***************************************************************************)
(* Properties of the combination generator                                 *)
(***************************************************************************)
\* The candidate sequence of a key, the ways to choose one position per key,
\* and the single-valued mapping a choice stands for.
CandidateSequence(v) == IF v.kind = "list" THEN v.items ELSE <<v>>
Choices(dict) ==
    {t \in [1..Len(dict) -> 1..MaxVals] :
        \A k \in 1..Len(dict) : t[k] <= Len(CandidateSequence(dict[k][2]))}
ChosenCombination(dict, t) ==
    [k \in 1..Len(dict) |-> <<dict[k][1], CandidateSequence(dict[k][2])[t[k]]>>]
\* The mapping a dictionary is: its items without their order.
Mapping(dict) == {dict[k] : k \in 1..Len(dict)}
RECURSIVE LengthProduct(_)
LengthProduct(dict) ==
    IF Len(dict) = 0 THEN 1
    ELSE Len(CandidateSequence(dict[1][2])) * LengthProduct(Tail(dict))
\* No two tuples of the cross product derive the same ID.
NoCollision(call) ==
    Cardinality({generate_id(combination_of(keys(call.dict),
                                            [k \in 1..Len(call.dict) |->
                                                ChosenCombination(call.dict, t)[k][2]]),
                             call.id_generator) :
                    t \in Choices(call.dict)})
        = Cardinality(Choices(call.dict))

\* C9: whenever generate_combinations returns normally, the returned IDs are
\* pairwise distinct.
C9_ReturnedIdsDistinct ==
    (gpc = "done" /\ gres.kind = "return") =>
        \A m, n \in 1..Len(gres.ids) : m # n => gres.ids[m] # gres.ids[n]

\* C10: without filters and with IDs that do not collide, the result is
\* exactly the cross product of the candidate sequences, each tuple once, as
\* single-valued mappings, with one ID each; its length is the product of the
\* sequence lengths, a value that is no list counting as a sequence of one
\* element; the empty dictionary gives ([], []).
C10_CartesianProduct ==
    (gpc = "done" /\ gin.filters = <<>> /\ NoCollision(gin)) =>
        IF Len(gin.dict) = 0 THEN gres = Returned(<<>>, <<>>)
        ELSE /\ gres.kind = "return"
             /\ Len(gres.combinations) = LengthProduct(gin.dict)
             /\ Len(gres.ids) = Len(gres.combinations)
             /\ {Mapping(gres.combinations[k]) : k \in 1..Len(gres.combinations)}
                    = {Mapping(ChosenCombination(gin.dict, t)) : t \in Choices(gin.dict)}
             /\ \A m, n \in 1..Len(gres.combinations) :
                    m # n => gres.combinations[m] # gres.combinations[n]

\* A dictionary of two keys with two candidates each has been expanded into
\* its four combinations.
C10_Witness ==
    /\ gpc = "done" /\ gin.filters = <<>> /\ NoCollision(gin)
    /\ Len(gin.dict) = 2
    /\ \A k \in 1..2 : gin.dict[k][2].kind = "list" /\ Len(gin.dict[k][2].items) = 2
    /\ gres.kind = "return" /\ Len(gres.combinations) = 4

\* What a filter answers for a combination when it is given the context the
\* caller supplied (a filter of two parameters) or nothing (one parameter).
Accepts(f, combination, config) ==
    filter_call(f, combination, IF f.nargs = 2 THEN <<config>> ELSE <<>>)
\* The choices of the cross product every supplied filter accepts.
AcceptedChoices(call) ==
    {t \in Choices(call.dict) :
        \A n \in 1..Len(call.filters) :
            Accepts(call.filters[n], ChosenCombination(call.dict, t), call.config)}

\* C11: in the returned result a combination of the cross product is retained
\* if and only if every supplied filter returns true for it; a rejected
\* combination contributes neither a combination nor an ID.
C11_RetainedIffAllFiltersAccept ==
    (gpc = "done" /\ gres.kind = "return" /\ Len(gin.dict) > 0) =>
        /\ {Mapping(gres.combinations[k]) : k \in 1..Len(gres.combinations)}
               = {Mapping(ChosenCombination(gin.dict, t)) : t \in AcceptedChoices(gin)}
        /\ Len(gres.combinations) = Cardinality(AcceptedChoices(gin))
        /\ Len(gres.ids) = Len(gres.combinations)

\* Two filters were supplied, one of them with the context; some combinations
\* of the cross product were rejected and others retained.
C11_Witness ==
    /\ gpc = "done" /\ gres.kind = "return"
    /\ gin.filters = <<no_false, if_config>> /\ gin.config
    /\ Len(gres.combinations) > 0
    /\ Len(gres.combinations) < Cardinality(Choices(gin.dict))

\* C12: for every dictionary, empty or not, a filter whose number of
\* parameters is not 1 or 2 makes generate_combinations raise the assertion
\* error, with no combination generated.
C12_WrongArityAlwaysRaises ==
    (gpc = "done" /\ \E n \in 1..Len(gin.filters) : gin.filters[n].nargs \notin {1, 2})
        => gres.kind = "AssertionError"

\* The ID the description gives a combination: the parts of its pairs in key
\* order, the empty ones left out, with a comma before every part but the first.
RECURSIVE ExpectedId(_, _, _)
ExpectedPart(fn, key, value) ==
    CASE fn = "None" /\ value = PyTrue -> key
      [] fn = "None" /\ value = PyFalse -> ""
      [] fn = "None" /\ value \notin {PyTrue, PyFalse} -> key \o ":" \o value.s
      [] fn = "id_gen" -> value.s
      [] fn = "nothing" -> ""
ExpectedId(combination, fn, sofar) ==
    IF Len(combination) = 0 THEN sofar
    ELSE LET part == ExpectedPart(fn, combination[1][1], combination[1][2])
         IN  ExpectedId(Tail(combination), fn,
                        IF part = "" THEN sofar
                        ELSE IF sofar = "" THEN part ELSE sofar \o "," \o part)

\* C13: the ID of every retained combination is the comma-joined sequence of
\* id_fn(key, value) over its pairs in the key order of the combination (the
\* order in which the combination itself is iterated), pairs with an empty or null
\* result omitted; by default True gives the key, False nothing, any other
\* value 'key:value'.
C13_IdIsJoinedParts ==
    (gpc = "done" /\ gres.kind = "return") =>
        \A k \in 1..Len(gres.ids) :
            gres.ids[k] = ExpectedId(gres.combinations[k], gin.id_generator, "")

\* By default the combination {a: False, b: 1} has got the ID 'b:1' and the
\* combination {a: True, b: 1} the ID 'a,b:1'.
C13_Witness ==
    /\ gpc = "done" /\ gres.kind = "return" /\ gin.id_generator = "None"
    /\ \E k \in 1..Len(gres.ids) :
          gres.combinations[k] = <<<<"a", PyFalse>>, <<"b", PyInt>>>> /\ gres.ids[k] = "b:1"
    /\ \E k \in 1..Len(gres.ids) :
          gres.combinations[k] = <<<<"a", PyTrue>>, <<"b", PyInt>>>> /\ gres.ids[k] = "a,b:1"

(***************************************************************************)
(* Marker options: internal.MarkerOption and internal.MarkerGroup          *)
(***************************************************************************)
\* Python values a marker keyword or a static variable holds.
PyNone == [kind |-> "NoneType", s |-> "None", items |-> <<>>]
PyStr(s) == [kind |-> "str", s |-> s, items |-> <<>>]

\* isinstance(v, t) for the declared types bool, str and int (bool is a
\* subclass of int).
isinstance(v, t) == v.kind = t \/ (t = "int" /\ v.kind = "bool")

\* A Python dict as the set of its <<key, value>> items.
dict_keys(d) == {kv[1] : kv \in d}
dict_get(d, k) == IF k \in dict_keys(d) THEN (CHOOSE kv \in d : kv[1] = k)[2] ELSE PyNone

\* __init__.TEST_TYPES
TEST_TYPES == {"default", "ip_nightly", "ip_release", "studio_nightly", "studio_release"}

\* MarkerOption.__init__; valid_types=None is TypesNone, choices=None the
\* empty set (validate_value tests 'not self.choices').
TypesNone == {"None"}
MarkerOption(marker_name, option_name, static_name, valid_types, choices) ==
    [marker_name |-> marker_name, option_name |-> option_name, static_name |-> static_name,
     types |-> valid_types, choices |-> choices]

\* MarkerGroup.__init__ and add_option: the options of the group inherit its
\* marker name; values, args and kwargs start empty (values is mvalues).
MarkerGroup(marker_name, options, varargs, varkwargs) ==
    [marker_name |-> marker_name, varargs |-> varargs, varkwargs |-> varkwargs,
     args |-> <<>>, kwargs |-> {},
     markers |-> {MarkerOption(marker_name, o[1], o[2], o[3], o[4]) : o \in options}]
options_(group) == {o.option_name : o \in group.markers}

\* markers.MARKER_OPTIONS: the groups 'profiler', 'randomgen',
\* 'test_metadata' and 'test_type'.
MARKER_OPTIONS ==
    {MarkerGroup("profiler", {<<"ia", "PROFILER_IA", {"bool"}, {}>>}, FALSE, FALSE),
     MarkerGroup("randomgen",
                 {<<"one_per_testcase", "RANDOMGEN_ONE_PER_TESTCASE", {"bool"}, {}>>},
                 FALSE, TRUE),
     MarkerGroup("test_metadata", {}, TRUE, TRUE),
     MarkerGroup("test_type",
                 {<<"enable", "TEST_TYPE_ENABLE", {"Iterable", "str"}, TEST_TYPES>>,
                  <<"disable", "TEST_TYPE_DISABLE", {"Iterable", "str"}, TEST_TYPES>>},
                 FALSE, FALSE)}

\* An option declared without types, in a group of its own.
UntypedGroup == MarkerGroup("plain", {<<"opt", "PLAIN_OPT", TypesNone, {}>>}, FALSE, FALSE)

\* MarkerOption._get_value under a fault: the module variable is looked up
\* before the class variable.
MarkerOption_get_value_module_first(self, metafunc) ==
    LET on_function == dict_get(dict_get(metafunc.function, self.marker_name).kwargs,
                                self.option_name)
        v1 == IF self.marker_name \in dict_keys(metafunc.function) THEN on_function ELSE PyNone
        v2 == IF v1 = PyNone THEN dict_get(metafunc.module, self.static_name) ELSE v1
        s2 == IF v1 = PyNone THEN "module" ELSE "function"
        v3 == IF v2 = PyNone THEN dict_get(metafunc.cls, self.static_name) ELSE v2
        s3 == IF v2 = PyNone THEN "class" ELSE s2
    IN  <<v3, IF v3 = PyNone THEN "None" ELSE s3>>
\* MarkerOption._get_value: <<value, scope>>, the scope None written "None".
\* metafunc.function is the dict of the markers set on the test function,
\* metafunc.cls and metafunc.module the dicts of their static variables.
MarkerOption_get_value(self, metafunc) ==
    LET v0 == PyNone
        s0 == "None"
        has == self.marker_name \in dict_keys(metafunc.function)
        v1 == IF has THEN dict_get(dict_get(metafunc.function, self.marker_name).kwargs,
                                   self.option_name)
              ELSE v0
        s1 == IF has THEN "function" ELSE s0
        v2 == IF v1 = PyNone THEN dict_get(metafunc.cls, self.static_name) ELSE v1
        s2 == IF v1 = PyNone THEN "class" ELSE s1
        v3 == IF v2 = PyNone THEN dict_get(metafunc.module, self.static_name) ELSE v2
        s3 == IF v2 = PyNone THEN "module" ELSE s2
    IN  <<v3, IF v3 = PyNone THEN "None" ELSE s3>>

\* MarkerOption.validate_type: the list of invalid values; for a collection
\* given to an option that takes no collection, the collection itself.
validate_type(self, value) ==
    IF self.types = TypesNone THEN <<>>
    ELSE LET iterable == "Iterable" \in self.types
             option_types == self.types \ {"Iterable"}
             elements == IF is_iterable(value) THEN value.items ELSE <<value>>
         IN  IF ~iterable /\ is_iterable(value) THEN value.items
             ELSE SelectSeq(elements, LAMBDA v : ~\E t \in option_types : isinstance(v, t))

\* MarkerOption.validate_value: the values outside the choices.
validate_value(self, value) ==
    IF self.choices = {} THEN <<>>
    ELSE LET elements == IF is_iterable(value) THEN value.items ELSE <<value>>
         IN  SelectSeq(elements, LAMBDA v : ~(v.kind = "str" /\ v.s \in self.choices))

\* MarkerOption.find_option: the copy of the option with value and scope,
\* returned or carried by the exception raised ('if invalid_values' is the
\* truth value of the list: it is not empty).
OptionResult(kind, self, value, scope) ==
    [kind |-> kind, option_name |-> self.option_name, value |-> value, scope |-> scope]
find_option(self, metafunc) ==
    LET found == MarkerOption_get_value(self, metafunc)
        value == found[1]
        scope == found[2]
    IN  IF value = PyNone THEN OptionResult("return", self, value, scope)
        ELSE IF validate_type(self, value) # <<>>
             THEN OptionResult("MarkerOptionTypeError", self, value, scope)
        ELSE IF validate_value(self, value) # <<>>
             THEN OptionResult("MarkerArgumentException", self, value, scope)
        ELSE OptionResult("return", self, value, scope)

\* Lines 280-281: the dictionary self.values after the options in 'found'
\* have been stored in it.
store_options(self_values, found, metafunc) ==
    {kv \in self_values : kv[1] \notin {o.option_name : o \in found}}
        \cup {<<o.option_name, find_option(o, metafunc)>> : o \in found}

\* MarkerGroup.find_options: the outcomes of one call, each with the content
\* it leaves in the dictionary 'values'.  'result = objcopy(self)' is a
\* shallow copy, so result.values is the dictionary of the registered group
\* itself; result.args and result.kwargs are rebound on the copy.  self.markers
\* is a set: when an option raises, any of the valid ones may have been
\* stored before it.
GroupResult(kind, args_, kwargs, filter_known_kwargs, self_values) ==
    [kind |-> kind, args |-> args_, kwargs |-> kwargs,
     filter_known_kwargs |-> filter_known_kwargs, values |-> self_values]
\* find_options under a fault: the registered keywords are never removed.
find_options_keeps_known(self, metafunc, filter_known_kwargs, self_values) ==
    LET raising == {o \in self.markers : find_option(o, metafunc).kind # "return"}
        stored == store_options(self_values, self.markers, metafunc)
        marker_obj == dict_get(metafunc.function, self.marker_name)
        m_args == marker_obj.args
        m_kwargs == marker_obj.kwargs
        errorous == {key \in dict_keys(m_kwargs) : key \notin options_(self)}
    IN  IF raising # {}
        THEN {GroupResult(find_option(r, metafunc).kind, self.args, self.kwargs,
                          filter_known_kwargs, store_options(self_values, before, metafunc)) :
                  <<r, before>> \in raising \X SUBSET (self.markers \ raising)}
        ELSE IF marker_obj = PyNone
        THEN {GroupResult("return", self.args, self.kwargs, filter_known_kwargs, stored)}
        ELSE IF ~self.varargs /\ m_args # <<>>
        THEN {GroupResult("MarkerArgumentException", self.args, self.kwargs,
                          filter_known_kwargs, stored)}
        ELSE IF ~self.varkwargs /\ errorous # {}
        THEN {GroupResult("MarkerArgumentException", self.args, self.kwargs,
                          filter_known_kwargs, stored)}
        ELSE {GroupResult("return", m_args,
                          m_kwargs,
                          filter_known_kwargs, stored)}
\* MarkerGroup.find_options
find_options(self, metafunc, filter_known_kwargs, self_values) ==
    LET raising == {o \in self.markers : find_option(o, metafunc).kind # "return"}
        stored == store_options(self_values, self.markers, metafunc)
        marker_obj == dict_get(metafunc.function, self.marker_name)
        m_args == marker_obj.args
        m_kwargs == marker_obj.kwargs
        errorous == {key \in dict_keys(m_kwargs) : key \notin options_(self)}
    IN  IF raising # {}
        THEN {GroupResult(find_option(r, metafunc).kind, self.args, self.kwargs,
                          filter_known_kwargs, store_options(self_values, before, metafunc)) :
                  <<r, before>> \in raising \X SUBSET (self.markers \ raising)}
        ELSE IF marker_obj = PyNone
        THEN {GroupResult("return", self.args, self.kwargs, filter_known_kwargs, stored)}
        ELSE IF ~self.varargs /\ m_args # <<>>
        THEN {GroupResult("MarkerArgumentException", self.args, self.kwargs,
                          filter_known_kwargs, stored)}
        ELSE IF ~self.varkwargs /\ errorous # {}
        THEN {GroupResult("MarkerArgumentException", self.args, self.kwargs,
                          filter_known_kwargs, stored)}
        ELSE {GroupResult("return", m_args,
                          IF filter_known_kwargs
                          THEN {kv \in m_kwargs : kv[1] \notin options_(self)}
                          ELSE m_kwargs,
                          filter_known_kwargs, stored)}

\* ---- the test cases the options are resolved for ----
\* Values given to an option by a marker keyword.
OptionValues ==
    {PyTrue, PyStr("default"), PyStr("bad"), PyList(<<>>), PyList(<<PyStr("default")>>),
     PyList(<<PyStr("bad")>>), PyList(<<PyInt>>)}
\* The options the test cases give a value to, and the values their class
\* and module variables hold.
GivenOptions(group) ==
    {o \in group.markers : o.option_name \in {"ia", "one_per_testcase", "enable", "opt"}}
ClassValue(o) == IF "bool" \in o.types THEN PyTrue ELSE PyStr("ip_nightly")
ModuleValue(o) == IF "bool" \in o.types THEN PyFalse ELSE PyStr("ip_release")
\* @pytest.mark.<marker_name>(*args, **kwargs) on the test function
Mark(args_, kwargs) == [kind |-> "Mark", args |-> args_, kwargs |-> kwargs]
Keywords(group) ==
    {option \cup extra :
        option \in {{}} \cup {{<<o.option_name, v>>} : <<o, v>> \in GivenOptions(group) \X OptionValues},
        extra \in {{}, {<<"extra", PyTrue>>}}}
Functions(group) ==
    {{}} \cup {{<<group.marker_name, Mark(args_, kwargs)>>} :
                  args_ \in {<<>>, <<PyInt>>}, kwargs \in Keywords(group)}
Statics(group, value(_)) ==
    {{}} \cup {{<<o.static_name, value(o)>>} : o \in GivenOptions(group)}
Metafunc(function, cls, module) == [function |-> function, cls |-> cls, module |-> module]
Metafuncs(group) ==
    {Metafunc(function, cls, module) :
        function \in Functions(group), cls \in Statics(group, ClassValue),
        module \in Statics(group, ModuleValue)}

MarkersInit ==
    /\ idle_driver /\ idle_clasifier /\ idle_generator /\ idle_run /\ idle_order
    /\ idle_plan /\ idle_reports
    /\ mpc = "ready"
    /\ mgroup \in MARKER_OPTIONS \cup {UntypedGroup}
    /\ mcase \in Metafuncs(mgroup)
    /\ mres = <<>>
    /\ mvalues = {}
    /\ mfirst = <<>>
    /\ mscopes = <<>>

markers_frame == UNCHANGED <<driver_vars, clasifier_vars, generator_vars, run_vars, order_vars, plan_vars, report_vars>>

\* marker_option.find_option(metafunc) on one option of the group
FindOption ==
    /\ markers_frame
    /\ mpc = "ready"
    /\ \E marker_option \in mgroup.markers : mres' = find_option(marker_option, mcase)
    /\ mpc' = "option"
    /\ UNCHANGED <<mgroup, mcase, mvalues, mfirst, mscopes>>

\* group.find_options(metafunc, filter_known_kwargs) for the first test case;
\* mfirst keeps what the result reports when it is returned.
FindOptions ==
    /\ markers_frame
    /\ mpc = "ready"
    /\ \E filter_known_kwargs \in BOOLEAN :
          \E result \in find_options(mgroup, mcase, filter_known_kwargs, mvalues) :
              /\ mres' = result
              /\ mvalues' = result.values
              /\ mfirst' = IF result.kind = "return" THEN result ELSE <<>>
    /\ mpc' = "first"
    /\ UNCHANGED <<mgroup, mcase, mscopes>>

\* group.find_options for another test function of the same class and module
FindOptionsNext ==
    /\ markers_frame
    /\ mpc = "first"
    /\ \E function \in Functions(mgroup), filter_known_kwargs \in BOOLEAN :
          LET metafunc == Metafunc(function, mcase.cls, mcase.module)
          IN  \E result \in find_options(mgroup, metafunc, filter_known_kwargs, mvalues) :
                  /\ mcase' = metafunc
                  /\ mres' = result
                  /\ mvalues' = result.values
    /\ mpc' = "second"
    /\ UNCHANGED <<mgroup, mfirst, mscopes>>

\* MarkerGroup.get: self.values.get(key), None for a key that is not there.
get(self_values, key) == dict_get(self_values, key)
\* MarkerGroup.get_value(option, default)
get_value(self_values, option, default) ==
    LET res == get(self_values, option)
    IN  IF res = PyNone THEN default ELSE res.value
\* The scope of a found option as a Python value: None, or the name of the
\* scope as a str.
PyScope(scope) == IF scope = "None" THEN PyNone ELSE PyStr(scope)
\* MarkerGroup.get_scope(option, default)
get_scope(self_values, option, default) ==
    LET res == get(self_values, option)
    IN  IF res = PyNone THEN default ELSE PyScope(res.scope)
\* MarkerGroup.get_scopes(*options): the return statement of lines 361-362;
\* the statements after it are never reached.
get_scopes(self, self_values, options) ==
    LET asked == IF options = {} THEN options_(self) ELSE options
    IN  {<<option, get_value(self_values, option, PyNone)>> :
            option \in {o \in asked : get_value(self_values, o, PyNone) # PyNone}}

\* result.get_scopes(*options) on the group the first find_options call
\* returned, for no option or for some of the registered ones.
GetScopes ==
    /\ markers_frame
    /\ mpc = "first" /\ mres.kind = "return"
    /\ \E options \in SUBSET options_(mgroup) :
          mscopes' = [options |-> options, scopes |-> get_scopes(mgroup, mvalues, options)]
    /\ mpc' = "scopes"
    /\ UNCHANGED <<mgroup, mcase, mres, mvalues, mfirst>>

MarkersNext == FindOption \/ FindOptions \/ FindOptionsNext \/ GetScopes
SpecMarkers == MarkersInit /\ [][MarkersNext]_vars


(***************************************************************************)
(* Properties of the marker options                                        *)
(***************************************************************************)
\* The option of the group a result of find_option belongs to, and the
\* values the test case holds for it: on the marker of the function, in the
\* class, in the module.
OptionOf(name) == CHOOSE o \in mgroup.markers : o.option_name = name
PriorityChain(o, metafunc) ==
    <<IF \E m \in metafunc.function : m[1] = o.marker_name
      THEN LET m == CHOOSE m \in metafunc.function : m[1] = o.marker_name
           IN  IF \E kv \in m[2].kwargs : kv[1] = o.option_name
               THEN (CHOOSE kv \in m[2].kwargs : kv[1] = o.option_name)[2]
               ELSE PyNone
      ELSE PyNone,
      IF \E kv \in metafunc.cls : kv[1] = o.static_name
      THEN (CHOOSE kv \in metafunc.cls : kv[1] = o.static_name)[2] ELSE PyNone,
      IF \E kv \in metafunc.module : kv[1] = o.static_name
      THEN (CHOOSE kv \in metafunc.module : kv[1] = o.static_name)[2] ELSE PyNone>>
ScopeNames == <<"function", "class", "module">>

\* C14: the option resolves to the first non-null value in the chain marker
\* keyword on the test function, class variable, module variable, with the
\* scope it came from; when all three are null the result is (None, None).
C14_FirstNonNullInPriorityChain ==
    mpc = "option" =>
        LET chain == PriorityChain(OptionOf(mres.option_name), mcase)
            set == {k \in 1..3 : chain[k] # PyNone}
        IN  IF set = {} THEN mres.value = PyNone /\ mres.scope = "None"
            ELSE LET first == CHOOSE k \in set : \A l \in set : k <= l
                 IN  mres.value = chain[first] /\ mres.scope = ScopeNames[first]

\* The marker of the function does not give the option, the class and the
\* module hold different values: the option has the value of the class.
C14_Witness ==
    /\ mpc = "option"
    /\ LET chain == PriorityChain(OptionOf(mres.option_name), mcase)
       IN  /\ mcase.function # {} /\ chain[1] = PyNone
           /\ chain[2] # PyNone /\ chain[3] # PyNone /\ chain[2] # chain[3]
           /\ mres.value = chain[2] /\ mres.scope = "class"


\* What a declaration asks of a value: the value itself or, for a list, tuple
\* or set, its elements.
ElementsOf(value) ==
    IF value.kind \in {"list", "tuple", "set"}
    THEN {value.items[k] : k \in 1..Len(value.items)} ELSE {value}
CollectionNotAllowed(o, value) ==
    o.types # TypesNone /\ "Iterable" \notin o.types /\ value.kind \in {"list", "tuple", "set"}
NotOfDeclaredType(o, value) ==
    /\ o.types # TypesNone
    /\ \E v \in ElementsOf(value) : \A t \in o.types \ {"Iterable"} : ~isinstance(v, t)
OutsideChoices(o, value) ==
    o.choices # {} /\ \E v \in ElementsOf(value) : ~(v.kind = "str" /\ v.s \in o.choices)

\* C15: for a non-null resolved value find_option raises MarkerOptionTypeError
\* for every collection given to an option whose types do not include
\* Iterable and for every value or element that is an instance of none of the
\* declared types, and MarkerArgumentException for every value or element
\* outside the declared choices; it returns normally only otherwise.
C15_ReturnsOnlyWhatTheDeclarationAllows ==
    (mpc = "option" /\ mres.value # PyNone) =>
        LET o == OptionOf(mres.option_name)
        IN  /\ (CollectionNotAllowed(o, mres.value) \/ NotOfDeclaredType(o, mres.value))
                   => mres.kind = "MarkerOptionTypeError"
            /\ (~CollectionNotAllowed(o, mres.value) /\ ~NotOfDeclaredType(o, mres.value)
                    /\ OutsideChoices(o, mres.value))
                   => mres.kind = "MarkerArgumentException"


\* The marker of the group on the test function of the call: its positional
\* arguments, its keywords, and those of them that are no registered option.
Positional(group, metafunc) ==
    IF \E m \in metafunc.function : m[1] = group.marker_name
    THEN (CHOOSE m \in metafunc.function : m[1] = group.marker_name)[2].args ELSE <<>>
KeywordItems(group, metafunc) ==
    IF \E m \in metafunc.function : m[1] = group.marker_name
    THEN (CHOOSE m \in metafunc.function : m[1] = group.marker_name)[2].kwargs ELSE {}
Unregistered(group, metafunc) ==
    {kv \in KeywordItems(group, metafunc) :
        \A o \in group.markers : o.option_name # kv[1]}
Rejected(group, metafunc) ==
    \/ Positional(group, metafunc) # <<>> /\ ~group.varargs
    \/ Unregistered(group, metafunc) # {} /\ ~group.varkwargs
HoldsExtras(result, group, metafunc) ==
    /\ result.kind = "return"
    /\ result.args = Positional(group, metafunc)
    /\ result.filter_known_kwargs => result.kwargs = Unregistered(group, metafunc)
AfterFindOptions == mpc \in {"first", "second"}

\* C16 as stated: find_options raises MarkerArgumentException when the
\* marker carries positional arguments and the group has no varargs, or a
\* keyword that is no registered option and the group has no varkwargs;
\* otherwise the result holds the positional arguments and, with
\* filter_known_kwargs, exactly the unregistered keywords.
C16_Original ==
    AfterFindOptions =>
        IF Rejected(mgroup, mcase) THEN mres.kind = "MarkerArgumentException"
        ELSE HoldsExtras(mres, mgroup, mcase)

\* C16 (amended): the same, for the calls in which find_option accepts the
\* value of every registered option; the options are resolved and validated
\* first, and a value that is rejected ends the call with the option's error.
C16_RejectsExtrasOfValidOptions ==
    (AfterFindOptions /\ \A o \in mgroup.markers : find_option(o, mcase).kind = "return") =>
        IF Rejected(mgroup, mcase) THEN mres.kind = "MarkerArgumentException"
        ELSE HoldsExtras(mres, mgroup, mcase)

\* 'randomgen' takes variable keywords: a marker with the registered keyword
\* and the keyword 'extra' gives a result whose kwargs hold 'extra' alone.
C16_Witness ==
    /\ mpc = "first" /\ mres.kind = "return" /\ mres.filter_known_kwargs
    /\ mgroup.marker_name = "randomgen"
    /\ {kv[1] : kv \in KeywordItems(mgroup, mcase)} = {"one_per_testcase", "extra"}
    /\ mres.kwargs = {<<"extra", PyTrue>>}


\* What a result of find_options reports now: its attribute 'values' is the
\* dictionary of the registered group (line 278 copies the reference).
ValuesNow(result) == mvalues

\* C17: find_options leaves the registered group (its values, args, kwargs)
\* as MarkerGroup.__init__ made it, and the result returned for one test case
\* still reports the values resolved for that test case after find_options
\* has been called on the group for another test case.
C17_NoSideEffectsAcrossCalls ==
    /\ AfterFindOptions =>
           mvalues = {} /\ mgroup.args = <<>> /\ mgroup.kwargs = {}
    /\ (mpc = "second" /\ mfirst # <<>>) => ValuesNow(mfirst) = mfirst.values


(***************************************************************************)
(* utils.run: a subprocess under a watchdog timer                          *)
(***************************************************************************)
\* exceptions.ProcessError.TIMEOUT
ProcessError_TIMEOUT == -1
\* signal.SIGINT; Popen.returncode of a process killed by signal N is -N
SIGINT == 2

\* The argument timeout: None, or a number of seconds.
Timeout(none, seconds) == [none |-> none, seconds |-> seconds]
Timeouts == {Timeout(TRUE, 0)} \cup {Timeout(FALSE, s) : s \in {-1, 0, 1}}
\* 'if timeout': None and 0 are false
truth(timeout) == ~timeout.none /\ timeout.seconds # 0

\* The tool started by Popen: whether it comes to an end by itself and with
\* which exit code, what SIGINT does to it, and whether what it writes to
\* stdout and stderr is UTF-8.
Tool(finishes, code, on_sigint, utf8) ==
    [finishes |-> finishes, code |-> code, on_sigint |-> on_sigint, utf8 |-> utf8]
Tools ==
    {Tool(TRUE, code, on_sigint, utf8) :
        code \in {0, 3}, on_sigint \in {"dies", "ignores"}, utf8 \in BOOLEAN}
        \cup {Tool(FALSE, 0, on_sigint, utf8) : on_sigint \in {"dies", "ignores"}, utf8 \in BOOLEAN}

\* What run gives back: (ec, out, err), or out alone with get_output, or an
\* exception; timeout is the keyword of ProcessError (False is 0).
run_return(get_output, ec) ==
    [kind |-> IF get_output THEN "out" ELSE "tuple", exit_code |-> ec, timeout |-> 0]
run_raise(exc, ec, timed_out) == [kind |-> exc, exit_code |-> ec, timeout |-> timed_out]

RunInit ==
    /\ idle_driver /\ idle_clasifier /\ idle_generator /\ idle_markers /\ idle_order
    /\ idle_plan /\ idle_reports
    /\ rpc = "start"
    /\ rin \in [timeout : Timeouts, get_output : BOOLEAN, tool : Tools]
    /\ rloc = [ec |-> 0, timed_out |-> 0]
    /\ proc = [state |-> "none", returncode |-> 0, timeout |-> FALSE, sigint |-> FALSE,
               started |-> 0]
    /\ timer = [state |-> "None", finished |-> FALSE, fired |-> FALSE]
    /\ rres = <<>>

run_frame == UNCHANGED <<driver_vars, clasifier_vars, generator_vars, marker_vars, order_vars, plan_vars, report_vars>>

\* ---- main thread ----
\* Lines 1107-1126: Popen, and Timer(...).start() for a positive timeout
run_Popen ==
    /\ run_frame
    /\ rpc = "start"
    /\ proc' = [proc EXCEPT !.state = "running", !.started = @ + 1]
    /\ timer' = IF truth(rin.timeout) /\ rin.timeout.seconds > 0
                THEN [timer EXCEPT !.state = "waiting"] ELSE timer
    /\ rpc' = "wait"
    /\ UNCHANGED <<rin, rloc, rres>>

\* Lines 1128-1129: p.wait() returns once the subprocess has exited
run_wait ==
    /\ run_frame
    /\ rpc = "wait"
    /\ proc.state = "exited"
    /\ rloc' = [ec |-> proc.returncode, timed_out |-> 0]
    /\ rpc' = "check"
    /\ UNCHANGED <<rin, proc, timer, rres>>

\* Lines 1130-1133: the attribute p.timeout is inspected
run_check ==
    /\ run_frame
    /\ rpc = "check"
    /\ IF ~truth(rin.timeout) THEN rpc' = "close" /\ UNCHANGED rloc
       ELSE IF proc.timeout
       THEN /\ rloc' = [ec |-> ProcessError_TIMEOUT, timed_out |-> rin.timeout.seconds]
            /\ rpc' = "close"
       ELSE rpc' = "cancel" /\ UNCHANGED rloc
    /\ UNCHANGED <<rin, proc, timer, rres>>

\* Line 1135: t.cancel(); t is None when the timeout is negative
run_cancel ==
    /\ run_frame
    /\ rpc = "cancel"
    /\ IF timer.state = "None"
       THEN /\ rres' = run_raise("AttributeError", rloc.ec, rloc.timed_out)
            /\ rpc' = "done"
            /\ UNCHANGED timer
       ELSE /\ timer' = [timer EXCEPT !.finished = TRUE]
            /\ rpc' = "join"
            /\ UNCHANGED rres
    /\ UNCHANGED <<rin, rloc, proc>>

\* Line 1136: t.join() returns once the timer thread has ended
run_join ==
    /\ run_frame
    /\ rpc = "join"
    /\ timer.state \in {"done", "error"}
    /\ rpc' = "close"
    /\ UNCHANGED <<rin, rloc, proc, timer, rres>>

\* Lines 1138-1157: the redirections are closed; a non-zero ec is raised as
\* ProcessError, whose constructor decodes the output (exceptions.py 131-132,
\* unicode(stdout, 'utf-8')) and raises UnicodeDecodeError itself when it cannot;
\* with ec = 0 the output is returned as it is.
run_close ==
    /\ run_frame
    /\ rpc = "close"
    /\ rres' = IF rloc.ec # 0
                 THEN IF rin.tool.utf8
                        THEN run_raise("ProcessError", rloc.ec, rloc.timed_out)
                        ELSE run_raise("UnicodeDecodeError", rloc.ec, rloc.timed_out)
               ELSE run_return(rin.get_output, rloc.ec)
    /\ rpc' = "done"
    /\ UNCHANGED <<rin, rloc, proc, timer>>

\* ---- timer thread (threading.Timer.run) ----
\* The interval has passed or the timer was cancelled: timeout_handler is
\* called unless finished is set.
TimerWake ==
    /\ run_frame
    /\ timer.state = "waiting"
    /\ timer' = IF timer.finished THEN [timer EXCEPT !.state = "done"]
                ELSE [timer EXCEPT !.state = "handler", !.fired = TRUE]
    /\ UNCHANGED <<rpc, rin, rloc, proc, rres>>

\* Line 1114: p.timeout = True
TimeoutHandlerFlag ==
    /\ run_frame
    /\ timer.state = "handler"
    /\ proc' = [proc EXCEPT !.timeout = TRUE]
    /\ timer' = [timer EXCEPT !.state = "signal"]
    /\ UNCHANGED <<rpc, rin, rloc, rres>>

\* Lines 1115-1120: p.send_signal(SIGINT).  A running subprocess gets the
\* signal.  For one that has exited, send_signal does nothing or raises
\* (the process is reaped), and then p.terminate() raises as well and ends
\* the thread.
TimeoutHandlerSignal ==
    /\ run_frame
    /\ timer.state = "signal"
    /\ IF proc.state = "running"
       THEN /\ proc' = [proc EXCEPT !.sigint = TRUE]
            /\ timer' = [timer EXCEPT !.state = "done", !.finished = TRUE]
       ELSE /\ UNCHANGED proc
            /\ \/ timer' = [timer EXCEPT !.state = "done", !.finished = TRUE]
               \/ timer' = [timer EXCEPT !.state = "error"]
    /\ UNCHANGED <<rpc, rin, rloc, rres>>

\* ---- the subprocess ----
\* The tool comes to its end by itself.
ToolExit ==
    /\ run_frame
    /\ proc.state = "running" /\ rin.tool.finishes
    /\ proc' = [proc EXCEPT !.state = "exited", !.returncode = rin.tool.code]
    /\ UNCHANGED <<rpc, rin, rloc, timer, rres>>

\* The tool receives SIGINT: it is killed by it, or ignores it.
ToolInterrupted ==
    /\ run_frame
    /\ proc.state = "running" /\ proc.sigint
    /\ proc' = IF rin.tool.on_sigint = "dies"
               THEN [proc EXCEPT !.state = "exited", !.returncode = -SIGINT, !.sigint = FALSE]
               ELSE [proc EXCEPT !.sigint = FALSE]
    /\ UNCHANGED <<rpc, rin, rloc, timer, rres>>

MainThread == run_Popen \/ run_wait \/ run_check \/ run_cancel \/ run_join \/ run_close
TimerThread == TimerWake \/ TimeoutHandlerFlag \/ TimeoutHandlerSignal
Subprocess == ToolExit \/ ToolInterrupted
RunNext == MainThread \/ TimerThread \/ Subprocess
SpecRun == RunInit /\ [][RunNext]_vars

\* Every thread that can take a step takes one in the end, a started timer
\* wakes up, a tool that finishes by itself does so and a pending signal is
\* delivered.
RunFairness ==
    /\ WF_vars(MainThread) /\ WF_vars(TimerThread)
    /\ WF_vars(ToolExit) /\ WF_vars(ToolInterrupted)
SpecRunLive == SpecRun /\ RunFairness


(***************************************************************************)
(* Properties of utils.run                                                 *)
(***************************************************************************)
PositiveTimeout == ~rin.timeout.none /\ rin.timeout.seconds > 0
ReportedAsTimeout ==
    rpc = "done" /\ rres.kind = "ProcessError" /\ rres.exit_code = ProcessError_TIMEOUT

\* C18: with a positive timeout, when the timer has fired (timeout_handler
\* was called) the invocation ends by raising ProcessError with the exit
\* code ProcessError.TIMEOUT, in every interleaving and whatever exit code
\* the subprocess reported; the subprocess is started once.
C18_FiredTimerIsReportedAsTimeout ==
    (PositiveTimeout /\ rpc = "done" /\ timer.fired) =>
        ReportedAsTimeout /\ proc.started = 1

\* C19: an invocation with a positive timeout comes back to its caller in the
\* end, whatever the subprocess does; when the subprocess has not exited at
\* the moment the timer fires, the invocation ends after the signal and is
\* reported with the exit code ProcessError.TIMEOUT.
C19_TimeoutAlwaysEndsTheRun ==
    /\ (PositiveTimeout /\ rpc = "wait") ~> (rpc = "done")
    /\ (PositiveTimeout /\ timer.state = "handler" /\ proc.state = "running")
           ~> ReportedAsTimeout


(***************************************************************************)
(* Status identifiers: Status.status_id and the comparison of statuses     *)
(***************************************************************************)
\* statuses.STATUS_PHASES, with None written PHASE_NONE
STATUS_PHASES == <<PHASE_NONE, "setup", "call", "teardown">>
PHASE_WEIGHT == 10000
ITEM_WEIGHT == 100
\* list.index: the 0-based position of the first occurrence
index(list, x) == (CHOOSE k \in 1..Len(list) : list[k] = x /\ \A l \in 1..(k - 1) : list[l] # x) - 1

\* Status.status_id under a fault: the phase is weighted like the item.
status_id_phase_weighted_as_item(s) ==
    ITEM_WEIGHT * index(STATUS_PHASES, s.phase)
        + ITEM_WEIGHT * status_classes[s.cls].ITEM_ID + s.sid
\* Status.status_id under a fault: the item is not weighted.
status_id_item_unweighted(s) ==
    PHASE_WEIGHT * index(STATUS_PHASES, s.phase)
        + status_classes[s.cls].ITEM_ID + s.sid
\* Status.status_id
status_id(s) ==
    PHASE_WEIGHT * index(STATUS_PHASES, s.phase)
        + ITEM_WEIGHT * status_classes[s.cls].ITEM_ID + s.sid

\* generate_statuses: every status attribute of every class (the common
\* errors with them) in each of the phases setup, call and teardown, an
\* attribute named EXIT* or OK* without phase.
generate_statuses ==
    {IF StartsWith(status_name(a.name), "EXIT") \/ StartsWith(status_name(a.name), "OK")
     THEN StatusObject(cls, a.sid, status_name(a.name), PHASE_NONE)
     ELSE StatusObject(cls, a.sid, status_name(a.name), STATUS_PHASES[p]) :
        <<cls, p, a>> \in
            {<<c, q, b>> \in ClassNames \X (2..4) \X UNION {status_classes[d].attrs \cup
                    {Attr(PREFIX_STATUS_ATTRIBUTE \o e.name, e.sid) : e \in COMMON_ERRORS} :
                    d \in ClassNames} :
                b \in get_status_attributes(c, status_classes[c].SUPPORT_COMMON_ERRORS)}}

\* Status.__eq__, __lt__ and __gt__
Compared(self, other) ==
    [eq |-> status_id(self) = status_id(other),
     lt |-> status_id(self) < status_id(other),
     gt |-> status_id(self) > status_id(other)]

OrderInit ==
    /\ idle_driver /\ idle_clasifier /\ idle_generator /\ idle_markers /\ idle_run
    /\ idle_plan /\ idle_reports
    /\ spc = "ready"
    /\ sin \in generate_statuses \X generate_statuses
    /\ sres = <<>>

\* self == other, self < other, self > other for two statuses
Compare ==
    /\ UNCHANGED <<driver_vars, clasifier_vars, generator_vars, marker_vars, run_vars,
                   plan_vars, report_vars>>
    /\ spc = "ready"
    /\ sres' = Compared(sin[1], sin[2])
    /\ spc' = "done"
    /\ UNCHANGED sin

OrderNext == Compare
SpecOrder == OrderInit /\ [][OrderNext]_vars

(***************************************************************************)
(* Properties of the status identifiers                                    *)
(***************************************************************************)
\* (phase index, ITEM_ID, local id) of a status, and its lexicographic order
PhaseIndexOf(s) ==
    CASE s.phase = PHASE_NONE -> 0 [] s.phase = "setup" -> 1
      [] s.phase = "call" -> 2 [] s.phase = "teardown" -> 3
Triple(s) == <<PhaseIndexOf(s), status_classes[s.cls].ITEM_ID, s.sid>>
LexLess(x, y) ==
    \/ x[1] < y[1]
    \/ x[1] = y[1] /\ x[2] < y[2]
    \/ x[1] = y[1] /\ x[2] = y[2] /\ x[3] < y[3]

\* C20: for two statuses made from the declared definitions the comparison
\* by status_id agrees with the lexicographic comparison of (phase index,
\* ITEM_ID, local id): the same item and local id is smaller in phase call
\* than in phase teardown, and equal identifiers have equal triples.
C20_StatusIdOrderIsLexicographic ==
    spc = "done" =>
        /\ sres.lt <=> LexLess(Triple(sin[1]), Triple(sin[2]))
        /\ sres.gt <=> LexLess(Triple(sin[2]), Triple(sin[1]))
        /\ sres.eq <=> Triple(sin[1]) = Triple(sin[2])

\* The general error of the compiler in phase call is smaller than the same
\* status in phase teardown.
C20_Witness ==
    /\ spc = "done"
    /\ sin[1] = StatusObject("StatusCompiler", STATUS_GENERALERROR, "GENERALERROR", "call")
    /\ sin[2] = StatusObject("StatusCompiler", STATUS_GENERALERROR, "GENERALERROR", "teardown")
    /\ sres.lt /\ ~sres.eq /\ ~sres.gt

\* C21: two statuses that belong to different classes of status_classes()
\* belong to classes with different ITEM_ID: no two distinct status classes
\* declare the same ITEM_ID.
C21_ItemIdUniquePerClass ==
    spc = "done" =>
        (sin[1].cls # sin[2].cls =>
            status_classes[sin[1].cls].ITEM_ID # status_classes[sin[2].cls].ITEM_ID)

\* C30: generate_statuses loses no declared status. Two generated statuses
\* of one class that have the same phase and the same local id are one and
\* the same status, and two generated statuses that differ in class, phase
\* or local id have different status_id values (they compare unequal), so
\* neither replaces the other in the registry keyed by status_id.
C30_NoGeneratedStatusIsOverwritten ==
    spc = "done" =>
        /\ (sin[1].cls = sin[2].cls /\ sin[1].phase = sin[2].phase /\ sin[1].sid = sin[2].sid)
               => sin[1] = sin[2]
        /\ (sin[1].cls # sin[2].cls \/ sin[1].phase # sin[2].phase \/ sin[1].sid # sin[2].sid)
               => (~sres.eq /\ status_id(sin[1]) # status_id(sin[2]))

\* The statuses OK (no phase) and FAILED (phase setup) of StatusInternal have
\* the same local id 1 and different identifiers; so have the bootstrap's
\* EXIT_FAIL_MODEL and the compiler's build error, of the same ITEM_ID.
C30_Witness ==
    /\ spc = "done"
    /\ \/ /\ sin[1] = StatusObject("StatusInternal", 1, "OK", PHASE_NONE)
          /\ sin[2] = StatusObject("StatusInternal", STATUS_FAILED, "FAILED", "setup")
       \/ /\ sin[1] = StatusObject("StatusBootstrap", 3, "EXIT_FAIL_MODEL", PHASE_NONE)
          /\ sin[2] = StatusObject("StatusCompiler", STATUS_BUILDERROR, "BUILDERROR", "setup")
    /\ ~sres.eq

(***************************************************************************)
(* Further properties of the execution driver                              *)
(***************************************************************************)
\* The exception of setup_repositories left _setup (ValueError of
\* Repository.checkout_branches when no branch matches, line 260 calling
\* utils.py 408): nothing of _run has run.
SetupRaised ==
    pc \in {"returned", "done"} /\ run_raised /\ i = 0 /\ ~(args.help \/ args.generate_doc)
\* An assertion of build_arguments failed for repository i (lines 310 and
\* 317: no project, no configuration matches the pattern).
ResolveRaised ==
    pc \in {"returned", "done"} /\ run_raised /\ i >= 1 /\ configs = 0
\* No pair of repository i or of a later one has been invoked.
NothingInvokedFrom(r) == \A k \in 1..Len(invoked) : invoked[k][1] < r

\* C22: a configuration error (an invalid combination of
\* --autodetect-top-project with --project/--repository, no branch or no
\* configuration matching its pattern) ends the driver with the usage-error
\* exit code 4, and no invocation is started after the error.
C22_ConfigurationErrorIsUsageError ==
    /\ (pc = "done" /\ (InvalidCombination(args) \/ SetupRaised \/ ResolveRaised)) =>
           ~escaped /\ wrapper_rc = EXIT_USAGEERROR
    /\ InvalidCombination(args) => invoked = <<>>
    /\ SetupRaised => invoked = <<>>
    /\ ResolveRaised => NothingInvokedFrom(i)

\* The pair that follows pair p in the plan: the next configuration of the
\* same checkout, or the first configuration of the next checkout.
NextInPlan(p) ==
    IF p[2] < resolved[p[1]] THEN <<p[1], p[2] + 1>> ELSE <<p[1] + 1, 1>>

\* C24: the pairs are invoked in plan order, the configurations of one
\* checkout in their discovery order before any configuration of the next
\* checkout, and an invocation starts only when the previous one is over: at
\* most one runner subprocess is in flight, and none when check_call is about
\* to be called.
C24_SequentialInPlanOrder ==
    /\ invoked # <<>> => invoked[1] = <<1, 1>>
    /\ \A k \in 1..(Len(invoked) - 1) : invoked[k + 1] = NextInPlan(invoked[k])
    /\ \A k \in 1..Len(invoked) :
          invoked[k][1] \in 1..Len(resolved) /\ invoked[k][2] \in 1..resolved[invoked[k][1]]
    /\ in_flight \in {0, 1}
    /\ pc = "invoke" => in_flight = 0
    /\ pc = "wait" => in_flight = 1

\* The last pair of a plan of two checkouts with two configurations each has
\* been started after the three pairs before it, and is the only one in
\* flight.
C24_Witness ==
    /\ pc = "wait" /\ in_flight = 1
    /\ resolved = <<2, 2>>
    /\ invoked = << <<1, 1>>, <<1, 2>>, <<2, 1>>, <<2, 2>> >>

\* C27: the plan is built before it is consumed: when the first invocation
\* of the run has started, the configurations of every checkout have been
\* resolved, and a failed resolution (no configuration matches) of any
\* checkout is raised while nothing has been invoked yet.
C27_PlanBuiltBeforeConsumed ==
    /\ invoked # <<>> => Len(resolved) = repositories
    /\ ResolveRaised => invoked = <<>>

\* C28: an exit with code 5 (no tests collected) does not stop the plan when
\* --ignore-internal-errors is unset: if every invocation exits with 0, 1 or
\* 5 (and nothing else ends the run early: no --collect-only/--help run, no
\* invocation cut short, no failed resolution), every pair of the plan is
\* invoked.
C28_NoTestsCollectedContinues ==
    (pc = "done" /\ ~args.ignore_internal_errors /\ EXIT_NOTESTSCOLLECTED \in observed
       /\ observed \subseteq {EXIT_OK, EXIT_TESTSFAILED, EXIT_NOTESTSCOLLECTED}
       /\ cut_short = 0 /\ ~RunOnce(args) /\ ~run_raised) => WholePlanOnce

\* C29: _run returns 0 only if every invocation it started ran to completion
\* with exit code 0: no invocation exited with a non-zero code (a negative
\* one included) and none was cut short.
C29_ZeroOnlyIfAllClean ==
    (RunReturned /\ run_result = EXIT_OK) => (observed \subseteq {EXIT_OK} /\ cut_short = 0)

(***************************************************************************)
(* The loop of Testsuite._run over the pairs of a plan, as a function of   *)
(* the exit codes the invocations end with                                 *)
(***************************************************************************)
\* Longest plan (number of pairs) that is compared with its permutations.
MaxPlan == 3

\* _run 420-459 for a plan whose k-th invoked pair exits with codes[k]
\* (check_call returns for 0 and raises CalledProcessError otherwise), from
\* pair k on, seen being exit_codes so far.
RECURSIVE run_loop(_, _, _, _)
run_loop(codes, k, seen, a) ==
    IF k > Len(codes)
      THEN Aggregate(seen)
      ELSE LET returncode == codes[k]
               stops == returncode # EXIT_OK /\ StopsPlan(returncode, a)
           IN  IF RunOnce(a)
                 THEN returncode
                 ELSE IF stops
                 THEN Aggregate(seen \cup {returncode})
                 ELSE run_loop(codes, k + 1, seen \cup {returncode}, a)

\* _run under a fault: the code of the last invocation is returned.
run_codes_last_wins(codes, a) ==
    IF RunOnce(a) THEN codes[1]
    ELSE LET stopping == {k \in 1..Len(codes) :
                            codes[k] # EXIT_OK /\ StopsPlan(codes[k], a)}
         IN  IF stopping = {} THEN codes[Len(codes)] ELSE codes[Min(stopping)]
\* What _run returns for the plan.
run_codes(codes, a) == run_loop(codes, 1, {}, a)

\* The permutations of 1..n, and a plan taken in the order of one.
Permutations_(n) == {f \in [1..n -> 1..n] : \A x, y \in 1..n : f[x] = f[y] => x = y}
Permuted(codes, perm) == [k \in 1..Len(codes) |-> codes[perm[k]]]

\* The flags of a pytest run (no --help, no --generate-doc).
PlanFlags ==
    {n \in Namespace : ~n.help /\ ~n.generate_doc /\ ~n.autodetect_top_project
                          /\ ~n.project /\ ~n.repository}

PlanInit ==
    /\ idle_driver /\ idle_clasifier /\ idle_generator /\ idle_markers /\ idle_run
    /\ idle_order /\ idle_reports
    /\ ppc = "ready"
    /\ \E n \in 1..MaxPlan :
          pin \in [a : PlanFlags, codes : [1..n -> ReturnCodes], perm : Permutations_(n)]
    /\ pres = <<>>

plan_frame ==
    UNCHANGED <<driver_vars, clasifier_vars, generator_vars, marker_vars, run_vars,
                order_vars, report_vars>>

\* _run on the pairs in plan order.
RunPlan ==
    /\ plan_frame
    /\ ppc = "ready"
    /\ pres' = <<run_codes(pin.codes, pin.a)>>
    /\ ppc' = "planned"
    /\ UNCHANGED pin

\* _run on the same pairs, with the same exit codes, in the permuted order.
RunPermuted ==
    /\ plan_frame
    /\ ppc = "planned"
    /\ pres' = Append(pres, run_codes(Permuted(pin.codes, pin.perm), pin.a))
    /\ ppc' = "done"
    /\ UNCHANGED pin

PlanNext == RunPlan \/ RunPermuted
SpecPlan == PlanInit /\ [][PlanNext]_vars

(***************************************************************************)
(* Properties of the loop of _run                                          *)
(***************************************************************************)
\* Range of a sequence of exit codes.
CodesOf(codes) == {codes[k] : k \in 1..Len(codes)}

\* C23 (as stated): for any plan and any exit codes of its pairs, the pairs
\* taken in a permuted order give the same final exit code.
C23_Original ==
    ppc = "done" => pres[1] = pres[2]

\* C23 (amended): the final exit code is the same in every order when no
\* invocation stops the plan, that is when the run is not a
\* --collect-only/--help run and either --ignore-internal-errors is set or
\* every exit code is 0 or 1; it is then the maximum of the exit codes.
C23_SameCodeWhenNothingStopsThePlan ==
    (ppc = "done" /\ ~RunOnce(pin.a)
       /\ (pin.a.ignore_internal_errors
             \/ CodesOf(pin.codes) \subseteq {EXIT_OK, EXIT_TESTSFAILED})) =>
        /\ pres[1] = pres[2]
        /\ pres[1] = Max(CodesOf(pin.codes))

\* With --ignore-internal-errors, the plan (1, 3, 0) and its reversal both
\* end with code 3.
C23_Witness ==
    /\ ppc = "done" /\ pin.a.ignore_internal_errors /\ ~RunOnce(pin.a)
    /\ pin.codes = <<EXIT_TESTSFAILED, EXIT_INTERNALERROR, EXIT_OK>>
    /\ pin.perm = <<3, 2, 1>>
    /\ pres = <<EXIT_INTERNALERROR, EXIT_INTERNALERROR>>

(***************************************************************************)
(* Report names: Testsuite.build_arguments, lines 320-356                  *)
(***************************************************************************)
\* str.rfind: the last position of character c in s (0: none).
rfind(s, c) ==
    LET at == {k \in 1..Len(s) : Char(s, k) = c}
    IN  IF at = {} THEN 0 ELSE Max(at)
\* os.path.basename
basename(path) == SubSeq(path, rfind(path, "/") + 1, Len(path))
\* os.path.splitext(path)[0]: the extension starts at the last dot, unless
\* only dots come before it in the file name.
splitext_root(path) ==
    LET sepIndex == rfind(path, "/")
        dotIndex == rfind(path, ".")
    IN  IF dotIndex > sepIndex
             /\ \E k \in (sepIndex + 1)..(dotIndex - 1) : Char(path, k) # "."
          THEN SubSeq(path, 1, dotIndex - 1)
          ELSE path
RECURSIVE underscore_join(_)
\* '_'.join(report_name)
underscore_join(report_name) ==
    IF Len(report_name) = 0 THEN ""
    ELSE IF Len(report_name) = 1 THEN report_name[1]
    ELSE report_name[1] \o "_" \o underscore_join(Tail(report_name))

\* A run as build_arguments sees it: is_codasip_cmdline(), whether
\* --repository, --project and a configuration pattern (--configuration or
\* --configuration-file) were given, and self.repositories.  A checkout is an
\* element of that list (None or a Repository with its branch) together with
\* what is on disk for it: the name of the project find_projects returns (""
\* for none found) and the list get_project_configurations returns.
Run(codasip, repository, project, pattern, checkouts) ==
    [codasip |-> codasip, repository |-> repository, project |-> project,
     pattern |-> pattern, checkouts |-> checkouts]
Checkout(object, branch, project, configurations) ==
    [object |-> object, branch |-> branch, project |-> project,
     configurations |-> configurations]

\* Lines 290-298: project_path is repository.dir with --repository and
\* args.project without; it is dropped outside the Codasip command line.
has_project_path(run, checkout) ==
    run.codasip /\ (IF run.repository THEN checkout.object ELSE run.project)

\* Lines 290-317 raise: repository.dir of None (--repository outside the
\* Codasip command line, where _setup leaves [None]); the assertions that a
\* project and, with a pattern, a configuration were found.  "" for no exception.
build_arguments_raises(run, checkout) ==
    IF run.repository /\ ~checkout.object THEN "AttributeError"
    ELSE IF has_project_path(run, checkout) /\ checkout.project = "" THEN "AssertionError"
    ELSE IF has_project_path(run, checkout) /\ run.pattern /\ checkout.configurations = <<>>
      THEN "AssertionError"
    ELSE ""

\* Lines 300-330: the configurations of the loop; [None] (written <<"">>)
\* when there was no lookup.
configurations_of(run, checkout) ==
    IF has_project_path(run, checkout) /\ run.pattern THEN checkout.configurations ELSE <<"">>

\* Lines 322-327: report_name before the loop over the configurations; the
\* project name is added when there is a project path, the branch when the
\* repository is not None.
base_report_name(run, checkout) ==
    <<"report">> \o (IF has_project_path(run, checkout) THEN <<checkout.project>> ELSE <<>>)
                 \o (IF checkout.object THEN <<checkout.branch>> ELSE <<>>)

\* The loop of lines 332-356 over the configurations left: a configuration
\* that is None or empty adds nothing (line 336), the first other one is
\* appended to report_name, each later one replaces the last component; the
\* names of the reports, without '.xml'.
RECURSIVE xml_report_names(_, _, _)
xml_report_names(report_name, first, configurations) ==
    IF configurations = <<>> THEN <<>>
    ELSE LET config == Head(configurations)
             config_ == splitext_root(basename(config))
             new_name == IF config = "" THEN report_name
                         ELSE IF first THEN Append(report_name, config_)
                         ELSE [report_name EXCEPT ![Len(report_name)] = config_]
         IN  <<underscore_join(new_name)>>
                 \o xml_report_names(new_name, first /\ config = "", Tail(configurations))

\* build_arguments(repository, args), a generator: the exception its first
\* resumption ends with ("" for none), or the report names of the commands
\* it yields, one per resumption.
build_arguments(run, checkout) ==
    [raises |-> build_arguments_raises(run, checkout),
     names |-> IF build_arguments_raises(run, checkout) # "" THEN <<>>
               ELSE xml_report_names(base_report_name(run, checkout), TRUE,
                                     configurations_of(run, checkout))]

\* Branches, projects and configurations (names or paths of preset files) of
\* the runs considered.
BranchNames == {"x", "x_y", "master"}
ProjectNames == {"", "p"}
ConfigNames == {"z", "y_z", "a/p.conf", "b/p.conf"}
\* The sequences without repetition of 0..n elements of a set.
Distinct(S, lo, hi) ==
    UNION {{f \in [1..n -> S] : \A x, y \in 1..n : f[x] = f[y] => x = y} : n \in lo..hi}

\* self.repositories after _setup: [None] outside the Codasip command line
\* (setup_repositories is skipped) and without --repository and --project;
\* with --repository the checkouts of the branches; with --project alone
\* either of the two (the directory is a git repository or not).  The disk
\* is read only for a checkout with a project path, the configurations only
\* with a pattern and a project.
NoRepository == Checkout(FALSE, "", "", <<>>)
OnDisk(pattern, object, branch) ==
    {Checkout(object, branch, project, configurations) :
        project \in ProjectNames,
        configurations \in Distinct(ConfigNames, 0, IF pattern THEN MaxConfigs ELSE 0)}
Checkouts(codasip, repository, project, pattern) ==
    IF ~codasip \/ (~repository /\ ~project) THEN {<<NoRepository>>}
    ELSE LET cloned ==
                 UNION {{cs \in [1..Len(branches) -> UNION {OnDisk(pattern, TRUE, b) : b \in BranchNames}] :
                            \A k \in 1..Len(branches) :
                                /\ cs[k].branch = branches[k]
                                /\ (cs[k].project = "" => cs[k].configurations = <<>>)} :
                        branches \in Distinct(BranchNames, 1, MaxRepos)}
             plain == {<<c>> : c \in {d \in OnDisk(pattern, FALSE, "") :
                                        d.project = "" => d.configurations = <<>>}}
         IN  IF repository THEN cloned ELSE cloned \cup plain

ReportsInit ==
    /\ idle_driver /\ idle_clasifier /\ idle_generator /\ idle_markers /\ idle_run
    /\ idle_order /\ idle_plan
    /\ bpc = "ready"
    /\ \E codasip \in BOOLEAN, repository \in BOOLEAN, project \in BOOLEAN, pattern \in BOOLEAN :
          /\ repository => ~project
          /\ \E checkouts \in Checkouts(codasip, repository, project, pattern) :
                bin = Run(codasip, repository, project, pattern, checkouts)
    /\ bres = <<>>

reports_frame ==
    UNCHANGED <<driver_vars, clasifier_vars, generator_vars, marker_vars, run_vars,
                order_vars, plan_vars>>

\* Line 428, the inner loop of _run asks the generator of the next checkout
\* for its first command: build_arguments runs up to its first yield, or raises.
BuildArgumentsFirst ==
    /\ reports_frame
    /\ bpc = "ready"
    /\ LET generator == build_arguments(bin, bin.checkouts[Len(bres) + 1])
       IN  IF generator.raises # ""
             THEN bres' = Append(bres, <<>>) /\ bpc' = "raised"
             ELSE bres' = Append(bres, <<generator.names[1]>>) /\ bpc' = "yielded"
    /\ UNCHANGED bin

\* Line 428 after an invocation that did not stop the plan: the generator is
\* resumed and yields its next command, or it is exhausted and the outer loop
\* goes on with the next checkout.
BuildArgumentsNext ==
    /\ reports_frame
    /\ bpc = "yielded"
    /\ LET k == Len(bres)
           generator == build_arguments(bin, bin.checkouts[k])
       IN  IF Len(bres[k]) < Len(generator.names)
             THEN /\ bres' = [bres EXCEPT ![k] = Append(@, generator.names[Len(bres[k]) + 1])]
                  /\ bpc' = "yielded"
             ELSE /\ bres' = bres
                  /\ bpc' = IF k = Len(bin.checkouts) THEN "done" ELSE "ready"
    /\ UNCHANGED bin

\* Lines 436-457: the invocation of the command in hand stops the plan (the
\* return of the finally clause, a break, an exception of check_call): the
\* generator is dropped, its other commands are never built.
BuildArgumentsClose ==
    /\ reports_frame
    /\ bpc = "yielded"
    /\ bpc' = "done"
    /\ UNCHANGED <<bin, bres>>

ReportsNext == BuildArgumentsFirst \/ BuildArgumentsNext \/ BuildArgumentsClose
SpecReports == ReportsInit /\ [][ReportsNext]_vars

(***************************************************************************)
(* Properties of the report names                                          *)
(***************************************************************************)
\* The pairs of the run and the report name of a pair.
ReportPairs == {<<r, c>> \in (1..Len(bres)) \X (1..MaxConfigs) : c \in 1..Len(bres[r])}
ReportOf(pair) == bres[pair[1]][pair[2]]

\* The name report[_project][_branch][_configuration] of a pair: one
\* configuration component, that of the pair's configuration.
ExpectedReport(pair) ==
    LET checkout == bin.checkouts[pair[1]]
        config == configurations_of(bin, checkout)[pair[2]]
    IN  underscore_join(
            base_report_name(bin, checkout)
                \o (IF config = "" THEN <<>> ELSE <<splitext_root(basename(config))>>))

\* C25: within one run every pair gets the report name
\* report[_project][_branch][_configuration] with the one configuration
\* component of its own configuration, and distinct pairs get distinct names.
C25_DistinctPairsDistinctReports ==
    bpc \in {"done", "raised"} =>
        /\ \A p \in ReportPairs : ReportOf(p) = ExpectedReport(p)
        /\ \A p, q \in ReportPairs : p # q => ReportOf(p) # ReportOf(q)

(***************************************************************************)
(* Properties of MarkerGroup.get_scopes                                    *)
(***************************************************************************)
\* C26: get_scopes(*options) returns the dictionary that maps each requested
\* option (every registered option when none is requested) to the scope its
\* value was resolved from, the scope get_scope returns for that option.
C26_ScopesOfRequestedOptions ==
    mpc = "scopes" =>
        LET requested == IF mscopes.options = {} THEN options_(mgroup) ELSE mscopes.options
        IN  mscopes.scopes = {<<option, get_scope(mvalues, option, PyNone)>> : option \in requested}

====
